---- MODULE Spec2Model ----
(***************************************************************************)
(* A model of the decode-and-cache engine of gpmc: the cache store of      *)
(* gpmc/db.py (class Storage over one SQLite file) and the page decoder of *)
(* gpmc/db_update_parser.py.                                               *)
(*                                                                         *)
(* The database file is the variable db; every Storage object is a handle  *)
(* with its own connection.  A batch mutation runs inside one transaction  *)
(* of its connection: its statements act on the connection's private view  *)
(* and the file changes at the commit.                                     *)
(***************************************************************************)
EXTENDS Integers, Sequences, FiniteSets, TLC

VARIABLES
    db,         \* the committed content of the database file: table name -> set of rows
    conn,       \* handle -> "open" | "closed"   (Storage.conn)
    txn,        \* the write transaction in progress, or NoTxn
    lastOp,     \* the last call that returned (or raised): name, handle, arguments, outcome;
                \* NoOp while the last call that started is still in its transaction
    prevUpsert, \* the call that had returned last when the call of lastOp started, kept
                \* when it was a successful one-record upsert
    sync        \* the page the sync loop is applying, or NoSync

vars == <<db, conn, txn, lastOp, prevUpsert, sync>>

(***************************************************************************)
(* Bounds of the model.                                                    *)
(***************************************************************************)
MaxBatch == 2

MaxCrashes == 1

Handles == {1, 2}

(***************************************************************************)
(* Python's None / SQL NULL and a present value.                           *)
(***************************************************************************)
None == <<>>

Some(v) == <<v>>

Range(s) == {s[i] : i \in 1..Len(s)}

SeqsUpTo(S, n) == UNION {[1..k -> S] : k \in 0..n}

(***************************************************************************)
(* CollectionItem and the collections table.  An item holds                *)
(* is_custom_ordered as a boolean; a row holds it as the integer 0 or 1.   *)
(***************************************************************************)
CollectionColumns ==
    {"collection_media_key", "collection_album_id", "title", "total_items", "type",
     "sort_order", "is_custom_ordered", "cover_item_media_key", "start", "end",
     "last_activity_time_ms"}

CollectionKeys == {"m1", "m2"}

CollectionVariants ==
    { [collection_album_id |-> "a1", title |-> "MyAlbum", total_items |-> 5, type |-> 1,
       sort_order |-> 0, is_custom_ordered |-> FALSE, cover_item_media_key |-> Some("k1"),
       start |-> Some(1), end |-> Some(2), last_activity_time_ms |-> Some(2)],
      [collection_album_id |-> "", title |-> "myalbum", total_items |-> 0, type |-> 0,
       sort_order |-> 1, is_custom_ordered |-> TRUE, cover_item_media_key |-> None,
       start |-> None, end |-> None, last_activity_time_ms |-> None],
      [collection_album_id |-> "a2", title |-> "MyAlbum", total_items |-> 10, type |-> 1,
       sort_order |-> 0, is_custom_ordered |-> TRUE, cover_item_media_key |-> None,
       start |-> None, end |-> None, last_activity_time_ms |-> Some(1)] }

CollectionItems ==
    { [c \in CollectionColumns |->
          IF c = "collection_media_key" THEN k ELSE v[c]] :
      k \in CollectionKeys, v \in CollectionVariants }

\* sqlite3 binds a Python bool as the integer 0 or 1
AdaptBool(b) == IF b THEN 1 ELSE 0

\* bool(str(value)): the text of any integer is truthy
ToBoolOfText(i) == TRUE

\* bool(row_dict['is_custom_ordered'])
ToBool(i) == i # 0

CollectionRow(item) ==
    [item EXCEPT !.is_custom_ordered = AdaptBool(@)]

CollectionFromRow(row) ==
    [row EXCEPT !.is_custom_ordered = ToBool(@)]

(***************************************************************************)
(* MediaItem and the remote_media table: forty columns, the booleans       *)
(* stored as 0 or 1.                                                       *)
(***************************************************************************)
MediaBoolColumns ==
    {"is_canonical", "is_archived", "is_favorite", "is_locked", "is_original_quality",
     "is_edited", "is_micro_video"}

MediaColumns ==
    {"media_key", "file_name", "dedup_key", "is_canonical", "type", "caption",
     "collection_id", "size_bytes", "quota_charged_bytes", "origin", "content_version",
     "utc_timestamp", "server_creation_timestamp", "timezone_offset", "width", "height",
     "remote_url", "upload_status", "trash_timestamp", "is_archived", "is_favorite",
     "is_locked", "is_original_quality", "latitude", "longitude", "location_name",
     "location_id", "is_edited", "make", "model", "aperture", "shutter_speed", "iso",
     "focal_length", "duration", "capture_frame_rate", "encoded_frame_rate",
     "is_micro_video", "micro_video_width", "micro_video_height"}

MediaKeys == {"k1", "k2"}

MediaVariants ==
    { [file_name |-> "a.jpg", dedup_key |-> "d1", is_canonical |-> TRUE, type |-> 1,
       caption |-> Some("cap"), collection_id |-> "c1", size_bytes |-> 10,
       quota_charged_bytes |-> 10, origin |-> "self", content_version |-> 1,
       utc_timestamp |-> 5, server_creation_timestamp |-> 6, timezone_offset |-> 0,
       width |-> Some(4), height |-> Some(3), remote_url |-> Some("u1"),
       upload_status |-> 1, trash_timestamp |-> 0, is_archived |-> FALSE,
       is_favorite |-> TRUE, is_locked |-> FALSE, is_original_quality |-> TRUE,
       latitude |-> Some(1), longitude |-> Some(2), location_name |-> Some("loc"),
       location_id |-> Some("lid"), is_edited |-> TRUE, make |-> Some("mk"),
       model |-> Some("md"), aperture |-> Some(2), shutter_speed |-> Some(1),
       iso |-> Some(100), focal_length |-> Some(4), duration |-> None,
       capture_frame_rate |-> None, encoded_frame_rate |-> None,
       is_micro_video |-> FALSE, micro_video_width |-> None,
       micro_video_height |-> None],
      [file_name |-> "b.mp4", dedup_key |-> "d1", is_canonical |-> FALSE, type |-> 2,
       caption |-> None, collection_id |-> "c1", size_bytes |-> 20,
       quota_charged_bytes |-> 0, origin |-> "shared", content_version |-> 2,
       utc_timestamp |-> 7, server_creation_timestamp |-> 8, timezone_offset |-> 1,
       width |-> None, height |-> None, remote_url |-> Some("u2"),
       upload_status |-> 1, trash_timestamp |-> 9, is_archived |-> TRUE,
       is_favorite |-> FALSE, is_locked |-> TRUE, is_original_quality |-> FALSE,
       latitude |-> None, longitude |-> None, location_name |-> None,
       location_id |-> None, is_edited |-> FALSE, make |-> None,
       model |-> None, aperture |-> None, shutter_speed |-> None,
       iso |-> None, focal_length |-> None, duration |-> Some(3),
       capture_frame_rate |-> Some(30), encoded_frame_rate |-> Some(30),
       is_micro_video |-> TRUE, micro_video_width |-> Some(2),
       micro_video_height |-> Some(1)] }

MediaItems ==
    { [c \in MediaColumns |-> IF c = "media_key" THEN k ELSE v[c]] :
      k \in MediaKeys, v \in MediaVariants }

MediaRow(item) ==
    [c \in MediaColumns |-> IF c \in MediaBoolColumns THEN AdaptBool(item[c]) ELSE item[c]]

(***************************************************************************)
(* The SQL statements, as functions of a table and the bound parameters.   *)
(***************************************************************************)
\* an upsert that adds to a counter column instead of replacing it
UpsertRowAccumulate(tab, row, key) ==
    LET counter == IF key = "media_key" THEN "size_bytes" ELSE "total_items"
    IN IF \E r \in tab : r[key] = row[key]
       THEN { IF r[key] = row[key]
              THEN [c \in DOMAIN r |->
                       IF c = key THEN r[c]
                       ELSE IF c = counter THEN r[c] + row[c] ELSE row[c]]
              ELSE r : r \in tab }
       ELSE tab \cup {row}

\* an upsert that merges fields: SET col = COALESCE(excluded.col, col)
UpsertRowCoalesce(tab, row, key) ==
    LET nullable == {"cover_item_media_key", "start", "end", "last_activity_time_ms",
                     "caption", "width", "height", "remote_url", "latitude", "longitude",
                     "location_name", "location_id", "make", "model", "aperture",
                     "shutter_speed", "iso", "focal_length", "duration",
                     "capture_frame_rate", "encoded_frame_rate", "micro_video_width",
                     "micro_video_height"}
    IN IF \E r \in tab : r[key] = row[key]
       THEN { IF r[key] = row[key]
              THEN [c \in DOMAIN r |->
                       IF c = key \/ (c \in nullable /\ row[c] = None)
                       THEN r[c] ELSE row[c]]
              ELSE r : r \in tab }
       ELSE tab \cup {row}

\* a plain INSERT into a table that has no primary key
UpsertRowAppend(tab, row, key) == tab \cup {row}

\* INSERT ... ON CONFLICT(key) DO NOTHING: the row that exists is kept
UpsertRowFirstWins(tab, row, key) ==
    IF \E r \in tab : r[key] = row[key] THEN tab ELSE tab \cup {row}

\* INSERT INTO t (cols) VALUES (?...) ON CONFLICT(key) DO UPDATE SET col = excluded.col,
\* for every column but the key
UpsertRow(tab, row, key) ==
    IF \E r \in tab : r[key] = row[key]
    THEN { IF r[key] = row[key]
           THEN [c \in DOMAIN r |-> IF c = key THEN r[c] ELSE row[c]]
           ELSE r : r \in tab }
    ELSE tab \cup {row}

\* a deletion that also matches dedup_key
DeleteMediaRowsByDedupKey(tab, params) ==
    {r \in tab : r.media_key \notin Range(params) /\ r.dedup_key \notin Range(params)}

\* DELETE FROM remote_media WHERE media_key IN (?, ..., ?)
DeleteMediaRows(tab, params) ==
    {r \in tab : r.media_key \notin Range(params)}

\* a deletion of the rows that match none of the parameters
DeleteCollectionRowsUnmatched(tab, params) ==
    {r \in tab : r.collection_media_key \in Range(params)
                    \/ r.collection_album_id \in Range(params)}

\* a deletion that matches the primary key only
DeleteCollectionRowsByKey(tab, params) ==
    {r \in tab : r.collection_media_key \notin Range(params)}

\* DELETE FROM collections WHERE collection_media_key IN (first half of the parameters)
\*    OR collection_album_id IN (second half)
DeleteCollectionRows(tab, params) ==
    LET n == Len(params) \div 2
        first == Range(SubSeq(params, 1, n))
        second == Range(SubSeq(params, n + 1, 2 * n))
    IN {r \in tab : ~(r.collection_media_key \in first \/ r.collection_album_id \in second)}

\* an update that takes an empty token for a token that was not passed
UpdateTokenRowsNotEmpty(tab, p) ==
    { IF r.id = 1
      THEN [r EXCEPT !.state_token = IF p.state_token \in {None, Some("")} THEN @
                                     ELSE p.state_token[1],
                     !.page_token = IF p.page_token \in {None, Some("")} THEN @
                                    ELSE p.page_token[1]]
      ELSE r : r \in tab }

\* UPDATE state SET state_token = ?, page_token = ? WHERE id = 1, with only the
\* assignments of the tokens that were passed
UpdateTokenRows(tab, p) ==
    { IF r.id = 1
      THEN [r EXCEPT !.state_token = IF p.state_token = None THEN @ ELSE p.state_token[1],
                     !.page_token = IF p.page_token = None THEN @ ELSE p.page_token[1]]
      ELSE r : r \in tab }

\* UPDATE state SET init_complete = {state}, state_token = '', page_token = ''
\* WHERE id = 1
UpdateInitRowsAndTokens(tab, v) ==
    { IF r.id = 1
      THEN [r EXCEPT !.init_complete = v, !.state_token = "", !.page_token = ""]
      ELSE r : r \in tab }

\* UPDATE state SET init_complete = {state} WHERE id = 1
UpdateInitRows(tab, v) ==
    { IF r.id = 1 THEN [r EXCEPT !.init_complete = v] ELSE r : r \in tab }

\* an INSERT OR IGNORE of a cursor that marks the first sync as done
InsertOrIgnoreStateDone(tab) ==
    IF \E r \in tab : r.id = 1
    THEN tab
    ELSE tab \cup {[id |-> 1, state_token |-> "", page_token |-> "", init_complete |-> 1]}

\* a plain INSERT of the defaults under the next free id
InsertStateAgain(tab) ==
    tab \cup {[id |-> Cardinality(tab) + 1, state_token |-> "", page_token |-> "",
              init_complete |-> 0]}

\* INSERT OR REPLACE INTO state (id, state_token, page_token, init_complete)
\* VALUES (1, '', '', 0)
InsertOrReplaceState(tab) ==
    {r \in tab : r.id # 1}
    \cup {[id |-> 1, state_token |-> "", page_token |-> "", init_complete |-> 0]}

\* INSERT OR IGNORE INTO state (id, state_token, page_token, init_complete)
\* VALUES (1, '', '', 0)
InsertOrIgnoreState(tab) ==
    IF \E r \in tab : r.id = 1
    THEN tab
    ELSE tab \cup {[id |-> 1, state_token |-> "", page_token |-> "", init_complete |-> 0]}

\* DROP TABLE IF EXISTS t; CREATE TABLE t
CreateTableAnew(d, t) ==
    [x \in DOMAIN d \cup {t} |-> IF x = t THEN {} ELSE d[x]]

\* CREATE TABLE IF NOT EXISTS t
CreateTableIfNotExists(d, t) ==
    IF t \in DOMAIN d THEN d ELSE [x \in DOMAIN d \cup {t} |-> IF x = t THEN {} ELSE d[x]]

\* Storage._create_tables
CreateTables(d) ==
    LET d1 == CreateTableIfNotExists(d, "remote_media")
        d2 == CreateTableIfNotExists(d1, "collections")
        d3 == CreateTableIfNotExists(d2, "state")
    IN [d3 EXCEPT !.state = InsertOrIgnoreState(@)]

\* a database file that holds no table yet
EmptyFile == [x \in {} |-> {}]

(***************************************************************************)
(* The mutating calls of Storage.  Statements is what a call hands to the  *)
(* engine inside its transaction, one entry per statement execution (none  *)
(* when the call returns before touching the connection); Exec is the      *)
(* effect of one of them on the tables.                                    *)
(***************************************************************************)
Statements(name, args) ==
    CASE name = "update" ->
            [i \in 1..Len(args) |-> MediaRow(args[i])]
      [] name = "update_collections" ->
            [i \in 1..Len(args) |-> CollectionRow(args[i])]
      [] name = "delete" ->
            IF Len(args) = 0 THEN <<>> ELSE <<args>>
      [] name = "delete_collections" ->
            IF Len(args) = 0 THEN <<>> ELSE <<args \o args>>
      [] name = "update_state_tokens" ->
            IF args.state_token = None /\ args.page_token = None THEN <<>> ELSE <<args>>
      [] name = "set_init_state" ->
            <<args>>

Exec(name, d, p) ==
    CASE name = "update" ->
            [d EXCEPT !.remote_media = UpsertRow(@, p, "media_key")]
      [] name = "update_collections" ->
            [d EXCEPT !.collections = UpsertRow(@, p, "collection_media_key")]
      [] name = "delete" ->
            [d EXCEPT !.remote_media = DeleteMediaRows(@, p)]
      [] name = "delete_collections" ->
            [d EXCEPT !.collections = DeleteCollectionRows(@, p)]
      [] name = "update_state_tokens" ->
            [d EXCEPT !.state = UpdateTokenRows(@, p)]
      [] name = "set_init_state" ->
            [d EXCEPT !.state = UpdateInitRows(@, p)]

RECURSIVE ExecAll(_, _, _)
ExecAll(name, d, todo) ==
    IF todo = <<>> THEN d ELSE ExecAll(name, Exec(name, d, Head(todo)), Tail(todo))

\* the tables after the whole call, when it commits
Run(name, d, args) == ExecAll(name, d, Statements(name, args))

(***************************************************************************)
(* Handles and transactions.                                               *)
(***************************************************************************)
NoTxn == [h |-> 0]

NoOp == [name |-> "none", h |-> 0]

\* the record of a call that returned (ok) or raised (~ok); stage is <<executed, left>>:
\* the statements another handle's open transaction had executed and had left to
\* execute when the call ran
Op(name, h, args, ok, result) ==
    [name |-> name, h |-> h, args |-> args, ok |-> ok, result |-> result,
     stage |-> IF txn.h = 0 \/ txn.h = h THEN <<0, 0>>
               ELSE <<Len(Statements(txn.name, txn.args)) - Len(txn.todo), Len(txn.todo)>>]

Digest(op) ==
    IF op.name \in {"update", "update_collections"} /\ op.ok /\ Len(op.args) = 1
    THEN [name |-> op.name, h |-> op.h, args |-> op.args] ELSE NoOp

\* a call starts (and, with op # NoOp, returns in the same step)
Start(op) ==
    /\ lastOp' = op
    /\ prevUpsert' = Digest(lastOp)

\* a call that started a transaction returns
Return(op) ==
    /\ lastOp' = op
    /\ UNCHANGED prevUpsert

Idle(h) == conn[h] = "open" /\ txn.h # h

\* Storage.__init__: connect and _create_tables, whose INSERT needs the write lock
Open(h) ==
    /\ conn[h] = "closed"
    /\ txn.h = 0
    /\ conn' = [conn EXCEPT ![h] = "open"]
    /\ db' = CreateTables(db)
    /\ UNCHANGED <<txn, lastOp, prevUpsert, sync>>

\* Storage.__exit__ / Storage.close
Close(h) ==
    /\ Idle(h)
    /\ conn' = [conn EXCEPT ![h] = "closed"]
    /\ UNCHANGED <<db, txn, lastOp, prevUpsert, sync>>

\* a call without the test for an empty batch: it fails on its first item
CallUnguarded(h, name, args) ==
    /\ Idle(h)
    /\ \/ /\ Statements(name, args) = <<>>
          /\ Start(Op(name, h, args, FALSE, None))
          /\ UNCHANGED <<db, conn, txn>>
       \/ /\ Statements(name, args) # <<>>
          /\ txn.h = 0
          /\ txn' = [h |-> h, name |-> name, args |-> args,
                     todo |-> Statements(name, args), view |-> db, base |-> db]
          /\ Start(NoOp)
          /\ UNCHANGED <<db, conn>>

\* a store opened for one handle at a time: a call waits while another handle is
\* open
CallExclusive(h, name, args) ==
    /\ Idle(h)
    /\ \A g \in Handles \ {h} : conn[g] = "closed"
    /\ \/ /\ Statements(name, args) = <<>>
          /\ Start(Op(name, h, args, TRUE, None))
          /\ UNCHANGED <<db, conn, txn>>
       \/ /\ Statements(name, args) # <<>>
          /\ txn.h = 0
          /\ txn' = [h |-> h, name |-> name, args |-> args,
                     todo |-> Statements(name, args), view |-> db, base |-> db]
          /\ Start(NoOp)
          /\ UNCHANGED <<db, conn>>

\* a mutating call up to its first statement: it returns at once when it has
\* nothing to execute, and starts the transaction when the write lock is free
Call(h, name, args) ==
    /\ Idle(h)
    /\ \/ /\ Statements(name, args) = <<>>
          /\ Start(Op(name, h, args, TRUE, None))
          /\ UNCHANGED <<db, conn, txn>>
       \/ /\ Statements(name, args) # <<>>
          /\ txn.h = 0
          /\ txn' = [h |-> h, name |-> name, args |-> args,
                     todo |-> Statements(name, args), view |-> db, base |-> db]
          /\ Start(NoOp)
          /\ UNCHANGED <<db, conn>>

\* a mutating call while another handle holds the write lock: the engine gives up
\* after its busy timeout and the call raises "database is locked"
Locked(h, name, args) ==
    /\ Idle(h)
    /\ txn.h # 0
    /\ Statements(name, args) # <<>>
    /\ Start(Op(name, h, None, FALSE, None))
    /\ UNCHANGED <<db, conn, txn, sync>>

\* a connection in autocommit mode: every statement is committed as it executes
TxnStepAutocommit ==
    /\ txn.h # 0
    /\ txn.todo # <<>>
    /\ txn' = [txn EXCEPT !.view = Exec(txn.name, @, Head(txn.todo)),
                          !.todo = Tail(@)]
    /\ db' = Exec(txn.name, txn.view, Head(txn.todo))
    /\ UNCHANGED <<conn, lastOp, prevUpsert, sync>>

\* the next statement of the transaction acts on the connection's view
TxnStep ==
    /\ txn.h # 0
    /\ txn.todo # <<>>
    /\ txn' = [txn EXCEPT !.view = Exec(txn.name, @, Head(txn.todo)),
                          !.todo = Tail(@)]
    /\ UNCHANGED <<db, conn, lastOp, prevUpsert, sync>>

\* a call that returns without a commit: its writes stay in the connection's
\* view and are lost when the connection is closed
TxnReturnUncommitted ==
    /\ txn.h # 0
    /\ txn.todo = <<>>
    /\ txn' = NoTxn
    /\ Return(Op(txn.name, txn.h, txn.args, TRUE, None))
    /\ UNCHANGED <<db, conn, sync>>

\* leaving "with self.conn" normally: commit
TxnCommit ==
    /\ txn.h # 0
    /\ txn.todo = <<>>
    /\ db' = txn.view
    /\ txn' = NoTxn
    /\ Return(Op(txn.name, txn.h, txn.args, TRUE, None))
    /\ UNCHANGED <<conn, sync>>

\* a failure without rollback: the statements executed so far are committed
TxnFailCommitsWrites ==
    /\ txn.h # 0
    /\ txn' = NoTxn
    /\ db' = txn.view
    /\ Return(Op(txn.name, txn.h, txn.args, FALSE, None))
    /\ UNCHANGED <<conn, sync>>

\* the engine fails inside "with self.conn": rollback, and the error propagates
TxnFail ==
    /\ txn.h # 0
    /\ txn' = NoTxn
    /\ Return(Op(txn.name, txn.h, txn.args, FALSE, None))
    /\ UNCHANGED <<db, conn, sync>>

Update(h, items) == Call(h, "update", items) /\ UNCHANGED sync

UpdateCollections(h, items) == Call(h, "update_collections", items) /\ UNCHANGED sync

Delete(h, media_keys) == Call(h, "delete", media_keys) /\ UNCHANGED sync

DeleteCollections(h, collection_keys) ==
    Call(h, "delete_collections", collection_keys) /\ UNCHANGED sync

UpdateStateTokens(h, state_token, page_token) ==
    /\ Call(h, "update_state_tokens",
            [state_token |-> state_token, page_token |-> page_token])
    /\ UNCHANGED sync

SetInitState(h, state) == Call(h, "set_init_state", state) /\ UNCHANGED sync

(***************************************************************************)
(* The queries.  They read the committed file.                             *)
(***************************************************************************)
\* SELECT * FROM collections WHERE collection_media_key = ?, fetchone
GetCollectionById(h, collection_media_key) ==
    /\ Idle(h)
    /\ LET rows == {r \in db.collections : r.collection_media_key = collection_media_key}
       IN \/ /\ rows = {}
             /\ Start(Op("get_collection_by_id", h, collection_media_key, TRUE, None))
          \/ \E row \in rows :
                Start(Op("get_collection_by_id", h, collection_media_key, TRUE,
                          Some(CollectionFromRow(row))))
    /\ UNCHANGED <<db, conn, txn, sync>>

\* the lower-case form of the titles of the model
Lower(s) == IF s = "MyAlbum" THEN "myalbum" ELSE s

\* a comparison of titles that ignores letter case
TitleEqualsNoCase(a, b) == Lower(a) = Lower(b)

\* title = ? on a TEXT column: the default collation compares the texts as they are
TitleEquals(a, b) == a = b

\* a before b in ORDER BY last_activity_time_ms DESC: a greater integer first, and
\* NULL after every integer
Before(a, b) ==
    /\ a.last_activity_time_ms # None
    /\ \/ b.last_activity_time_ms = None
       \/ a.last_activity_time_ms[1] > b.last_activity_time_ms[1]

\* the rows that come first in ascending order
FirstRowsAscending(rows) == {r \in rows : \A o \in rows : ~Before(r, o)}

\* ORDER BY last_activity_time_ms DESC LIMIT 1: the rows that no row precedes; which
\* of several such rows the engine returns is not defined
FirstRows(rows) == {r \in rows : \A o \in rows : ~Before(o, r)}

\* SELECT * FROM collections WHERE title = ? ORDER BY last_activity_time_ms DESC
\* LIMIT 1, fetchone
GetCollectionByTitle(h, title) ==
    /\ Idle(h)
    /\ LET rows == FirstRows({r \in db.collections : TitleEquals(r.title, title)})
       IN \/ /\ rows = {}
             /\ Start(Op("get_collection_by_title", h, title, TRUE, None))
          \/ \E row \in rows :
                Start(Op("get_collection_by_title", h, title, TRUE,
                          Some(CollectionFromRow(row))))
    /\ UNCHANGED <<db, conn, txn, sync>>

\* the rows in any order, as a SELECT without ORDER BY may return them
ListingsUnordered(rows) ==
    {s \in [1..Cardinality(rows) -> rows] :
        \A i, j \in 1..Cardinality(rows) : i # j => s[i] # s[j]}

\* the orders in which SELECT ... ORDER BY last_activity_time_ms DESC can return
\* the rows: each row once, no row before a row that precedes it; the order of
\* rows of equal time is not defined
Listings(rows) ==
    {s \in [1..Cardinality(rows) -> rows] :
        /\ \A i, j \in 1..Cardinality(rows) : i # j => s[i] # s[j]
        /\ \A i, j \in 1..Cardinality(rows) : i < j => ~Before(s[j], s[i])}

\* LIMIT n: the first n rows, all of them for a negative n
Limit(s, n) == IF n < 0 \/ n > Len(s) THEN s ELSE SubSeq(s, 1, n)

\* Storage.get_collections: the LIMIT clause is added "if limit:", that is for a
\* limit that is neither None nor 0
GetCollections(h, limit) ==
    /\ Idle(h)
    /\ \E s \in Listings(db.collections) :
          LET fetched == IF limit = None \/ limit = Some(0) THEN s ELSE Limit(s, limit[1])
          IN Start(Op("get_collections", h, limit, TRUE,
                      [i \in 1..Len(fetched) |-> CollectionFromRow(fetched[i])]))
    /\ UNCHANGED <<db, conn, txn, sync>>

(***************************************************************************)
(* The sync loop that drives the store.  It applies a decoded page with    *)
(* five calls in a fixed order; when the process dies, the transaction in  *)
(* progress is rolled back, and the restarted process opens the store and  *)
(* applies the whole page again.                                           *)
(***************************************************************************)
NoSync == [step |-> 0 - 1]

SyncNames ==
    <<"update", "update_collections", "delete", "delete_collections",
      "update_state_tokens">>

SyncArgs(page) ==
    <<page.remote_media, page.collections, page.media_keys_to_delete,
      page.collection_keys_to_delete,
      [state_token |-> page.state_token, page_token |-> page.next_page_token]>>

RECURSIVE ApplyCalls(_, _, _)
ApplyCalls(d, page, k) ==
    IF k = 0 THEN d
    ELSE Run(SyncNames[k], ApplyCalls(d, page, k - 1), SyncArgs(page)[k])

\* the tables after the five calls of one uninterrupted application of the page
ApplyPage(d, page) == ApplyCalls(d, page, Len(SyncNames))

\* step counts the calls of the current attempt that have started; after is the
\* greatest number of calls an attempt had started when the process died
SyncStart(h, page) ==
    /\ sync = NoSync
    /\ Idle(h)
    /\ txn.h = 0
    /\ sync' = [h |-> h, page |-> page, base |-> db, step |-> 0, crashes |-> 0,
                after |-> 0]
    /\ UNCHANGED <<db, conn, txn, lastOp, prevUpsert>>

SyncCall ==
    /\ sync # NoSync
    /\ sync.step < Len(SyncNames)
    /\ txn.h = 0
    /\ Call(sync.h, SyncNames[sync.step + 1], SyncArgs(sync.page)[sync.step + 1])
    /\ sync' = [sync EXCEPT !.step = @ + 1]

SyncCrash ==
    /\ sync # NoSync
    /\ sync.crashes < MaxCrashes
    /\ txn' = NoTxn
    /\ db' = CreateTables(db)
    /\ sync' = [sync EXCEPT !.step = 0, !.crashes = @ + 1,
                            !.after = IF sync.step > @ THEN sync.step ELSE @]
    /\ lastOp' = NoOp
    /\ prevUpsert' = NoOp
    /\ UNCHANGED conn

SyncEnd ==
    /\ sync # NoSync
    /\ sync.step = Len(SyncNames)
    /\ txn.h = 0
    /\ sync' = NoSync
    /\ UNCHANGED <<db, conn, txn, lastOp, prevUpsert>>

(***************************************************************************)
(* The values of a decoded page envelope (gpmc/db_update_parser.py).  A    *)
(* value carries its Python type; a dict is the sequence of its            *)
(* <<key, value>> pairs in insertion order; Raise(e) is an expression      *)
(* that raised e.                                                          *)
(***************************************************************************)
Str(s) == [k |-> "str", v |-> s]

Num(n) == [k |-> "int", v |-> n]

Bytes(b) == [k |-> "bytes", v |-> b]

Bool(b) == [k |-> "bool", v |-> b]

PyNone == [k |-> "none", v |-> <<>>]

List(s) == [k |-> "list", v |-> s]

Dict(pairs) == [k |-> "dict", v |-> pairs]

Raise(e) == [k |-> "raise", v |-> e]

EmptyDict == Dict(<<>>)

Has(d, key) == \E i \in 1..Len(d.v) : d.v[i][1] = key

Lookup(d, key) == d.v[CHOOSE i \in 1..Len(d.v) : d.v[i][1] = key][2]

\* Python computes the value of an expression once and then uses it; the operators
\* below do so in the form CHOOSE r \in {e(y) : y \in {x}} : TRUE, which is e of
\* the value y of x.

\* x[key], key a string
Item(x, key) ==
    CHOOSE r \in
        {(IF y.k = "raise" THEN y
              ELSE IF y.k = "dict"
                   THEN IF Has(y, key) THEN Lookup(y, key) ELSE Raise("KeyError")
                   ELSE Raise("TypeError")) :
         y \in {x}} : TRUE

\* x.get(key, default)
Get(x, key, default) ==
    CHOOSE r \in
        {(IF y.k = "raise" THEN y
              ELSE IF y.k = "dict"
                   THEN IF Has(y, key) THEN Lookup(y, key) ELSE default
                   ELSE Raise("AttributeError")) :
         y \in {x}} : TRUE

\* the characters of the strings of the model that the code may iterate
Chars(s) ==
    CASE s = "" -> <<>>
      [] s = "oops" -> <<"o", "o", "p", "s">>
      [] s = "21" -> <<"2", "1">>
      [] OTHER -> <<s>>

\* the bytes of the byte strings of the model
ByteValues(b) ==
    CASE b = "" -> <<>>
      [] b = "fbff" -> <<251, 255>>
      [] OTHER -> <<0>>

\* the values that "for y in x" runs through
Iter(x) ==
    CASE x.k = "raise" -> x
      [] x.k = "list" -> x
      [] x.k = "dict" -> List([i \in 1..Len(x.v) |-> Str(x.v[i][1])])
      [] x.k = "str" -> List([i \in 1..Len(Chars(x.v)) |-> Str(Chars(x.v)[i])])
      [] x.k = "bytes" ->
            List([i \in 1..Len(ByteValues(x.v)) |-> Num(ByteValues(x.v)[i])])
      [] OTHER -> Raise("TypeError")

\* key in x, key a one-character string
In(key, x) ==
    CASE x.k = "raise" -> x
      [] x.k = "dict" -> Bool(Has(x, key))
      [] x.k = "list" -> Bool(\E i \in 1..Len(x.v) : x.v[i].k = "str" /\ x.v[i].v = key)
      [] x.k = "str" -> Bool(\E i \in 1..Len(Chars(x.v)) : Chars(x.v)[i] = key)
      [] OTHER -> Raise("TypeError")

\* bool(x)
Truthy(x) ==
    CASE x.k = "none" -> FALSE
      [] x.k = "raise" -> FALSE
      [] x.k = "bool" -> x.v
      [] x.k = "int" -> x.v # 0
      [] x.k = "str" -> x.v # ""
      [] x.k = "bytes" -> x.v # ""
      [] x.k \in {"list", "dict"} -> x.v # <<>>
      [] OTHER -> TRUE

\* x == n, n an integer (True == 1 and False == 0)
EqInt(x, n) ==
    IF x.k = "raise" THEN x
    ELSE Bool(\/ x.k = "int" /\ x.v = n
              \/ x.k = "bool" /\ n = (IF x.v THEN 1 ELSE 0))

\* x or y
Or(x, y) == IF x.k = "raise" \/ Truthy(x) THEN x ELSE y

\* x and y
And(x, y) == IF x.k = "raise" \/ ~Truthy(x) THEN x ELSE y

\* not x
Not(x) == IF x.k = "raise" THEN x ELSE Bool(~Truthy(x))

\* the first of the values, in evaluation order, that raised
FirstRaise(values) ==
    CHOOSE r \in
        {(IF \E i \in 1..Len(s) : s[i].k = "raise"
              THEN s[CHOOSE i \in 1..Len(s) :
                        /\ s[i].k = "raise"
                        /\ \A j \in 1..(i - 1) : s[j].k # "raise"]
              ELSE PyNone) :
         s \in {values}} : TRUE

\* key.startswith(prefix) for the field numbers of the envelope
StartsWith(key, prefix) ==
    CASE prefix = "1" ->
            key \in {"1", "10", "11", "12", "13", "14", "15", "16", "17", "18", "19"}
      [] prefix = "3" ->
            key \in {"3", "30", "31", "32", "33", "34", "35", "36", "37", "38", "39"}
      [] OTHER -> key = prefix

\* next((x[key] for key in x if key.startswith(prefix)), default), keys the values
\* of iter(x) still to visit
RECURSIVE NextStartingWith(_, _, _, _)
NextStartingWith(x, keys, prefix, default) ==
    IF keys = <<>> THEN default
    ELSE IF Head(keys).k # "str" THEN Raise("AttributeError")
    ELSE IF StartsWith(Head(keys).v, prefix) THEN Item(x, Head(keys).v)
    ELSE NextStartingWith(x, Tail(keys), prefix, default)

FirstStartingWith(x, prefix, default) ==
    CHOOSE r \in
        {(IF Iter(y).k = "raise" THEN Iter(y)
              ELSE NextStartingWith(y, Iter(y).v, prefix, default)) :
         y \in {x}} : TRUE

\* any(prop.get("1") == 27 for prop in props), props the values still to visit
RECURSIVE AnyTagged(_)
AnyTagged(props) ==
    IF props = <<>> THEN Bool(FALSE)
    ELSE LET tag == Get(Head(props), "1", PyNone)
         IN IF tag.k = "raise" THEN tag
            ELSE IF EqInt(tag, 27).v THEN Bool(TRUE)
            ELSE AnyTagged(Tail(props))

\* base64.b64encode(x).decode()
B64Encode(x) ==
    CASE x.k = "raise" -> x
      [] x.k = "bytes" ->
            Str(CASE x.v = "" -> ""
                  [] x.v = "fbff" -> "+/8="
                  [] OTHER -> "AA==")
      [] OTHER -> Raise("TypeError")

\* utils.urlsafe_base64: "+" becomes "-", "/" becomes "_", the padding goes
UrlsafeBase64(x) ==
    CASE x.k = "raise" -> x
      [] x.k = "str" ->
            Str(CASE x.v = "+/8=" -> "-_8"
                  [] x.v = "AA==" -> "AA"
                  [] OTHER -> x.v)
      [] OTHER -> Raise("AttributeError")

\* utils.fixed32_to_float, utils.int32_to_float, utils.int64_to_float: the float
\* whose bits are the integer
ToFloat(codec, x) ==
    CASE x.k = "raise" -> x
      [] x.k = "int" -> [k |-> "float", v |-> <<codec, x.v>>]
      [] OTHER -> Raise("struct.error")

\* an origin map that takes "self" for a code it does not hold
OriginMapDefault(x) ==
    CASE x.k = "raise" -> x
      [] x.k \in {"dict", "list"} -> Raise("TypeError")
      [] x.k = "int" /\ x.v = 3 -> Str("partner")
      [] x.k = "int" /\ x.v = 4 -> Str("shared")
      [] OTHER -> Str("self")

\* origin_map[x]
OriginMap(x) ==
    CASE x.k = "raise" -> x
      [] x.k \in {"dict", "list"} -> Raise("TypeError")
      [] x.k = "int" /\ x.v = 1 -> Str("self")
      [] x.k = "int" /\ x.v = 3 -> Str("partner")
      [] x.k = "int" /\ x.v = 4 -> Str("shared")
      [] OTHER -> Raise("KeyError")

(***************************************************************************)
(* _parse_media_item.  The result is a MediaItem whose fields hold the     *)
(* values found in the record, or Raise.  The fields that the constructor  *)
(* call does not pass take the defaults of the dataclass.                  *)
(***************************************************************************)
MediaItemDefaults ==
    [width |-> PyNone, height |-> PyNone, remote_url |-> PyNone, latitude |-> PyNone,
     longitude |-> PyNone, location_name |-> PyNone, location_id |-> PyNone,
     is_edited |-> Bool(FALSE), make |-> PyNone, model |-> PyNone, aperture |-> PyNone,
     shutter_speed |-> PyNone, iso |-> PyNone, focal_length |-> PyNone,
     duration |-> PyNone, capture_frame_rate |-> PyNone, encoded_frame_rate |-> PyNone,
     is_micro_video |-> Bool(FALSE), micro_video_width |-> PyNone,
     micro_video_height |-> PyNone]

\* lines 10-15
DedupKey(d) ==
    CHOOSE r \in
        {(IF first.k \in {"raise", "str"} THEN first
              ELSE CHOOSE r \in
                       {(IF coded.k = "raise" THEN Raise("RuntimeError") ELSE coded) :
                        coded \in {UrlsafeBase64(B64Encode(Item(Item(Item(d, "2"), "13"), "1")))}} : TRUE) :
         first \in {FirstStartingWith(Item(Item(d, "2"), "21"), "1", Str(""))}} : TRUE

\* not any(prop.get("1") == 27 for prop in props)
IsCanonical(props) ==
    CHOOSE r \in
        {(IF it.k = "raise" THEN it ELSE Not(AnyTagged(it.v))) :
         it \in {Iter(props)}} : TRUE

\* the arguments of MediaItem(...), lines 23-44
MediaItemArguments(d) ==
    CHOOSE r \in
        {([media_key |-> Item(d, "1"),
               caption |-> Or(FirstStartingWith(d2, "3", Str("")), PyNone),
               file_name |-> Item(d2, "4"),
               dedup_key |-> DedupKey(d),
               is_canonical |-> IsCanonical(Item(d2, "5")),
               type |-> Item(Item(d, "5"), "1"),
               collection_id |-> Item(Item(d2, "1"), "1"),
               size_bytes |-> Item(d2, "10"),
               timezone_offset |-> Get(d2, "8", Num(0)),
               utc_timestamp |-> Item(d2, "7"),
               server_creation_timestamp |-> Item(d2, "9"),
               upload_status |-> Item(d2, "11"),
               quota_charged_bytes |-> Item(Item(d2, "35"), "2"),
               origin |-> OriginMap(Item(Item(d2, "30"), "1")),
               content_version |-> Item(d2, "26"),
               trash_timestamp |-> Get(Item(d2, "16"), "3", Num(0)),
               is_archived |-> EqInt(Item(Item(d2, "29"), "1"), 1),
               is_favorite |-> EqInt(Item(Item(d2, "31"), "1"), 1),
               is_locked |-> EqInt(Item(Item(d2, "39"), "1"), 1),
               is_original_quality |-> EqInt(Item(Item(d2, "35"), "3"), 2)]) :
         d2 \in {Item(d, "2")}} : TRUE

\* the order in which the arguments are evaluated, the dedup key before the call
MediaItemArgumentOrder ==
    <<"dedup_key", "media_key", "caption", "file_name", "is_canonical", "type",
      "collection_id", "size_bytes", "timezone_offset", "utc_timestamp",
      "server_creation_timestamp", "upload_status", "quota_charged_bytes", "origin",
      "content_version", "trash_timestamp", "is_archived", "is_favorite", "is_locked",
      "is_original_quality">>

\* lines 46-51: the values the statements evaluate, in order (seen), and the fields
\* they assign (set)
ParseLocation(d17) ==
    LET geo == Get(d17, "1", PyNone)
        place == Get(d17, "5", PyNone)
        latitude == ToFloat("fixed32", Item(Item(d17, "1"), "1"))
        longitude == ToFloat("fixed32", Item(Item(d17, "1"), "2"))
        location_name == Item(Item(Item(d17, "5"), "2"), "1")
        location_id == Item(Item(d17, "5"), "3")
        dflt == MediaItemDefaults
    IN [seen |-> <<geo>> \o (IF Truthy(geo) THEN <<latitude, longitude>> ELSE <<>>)
                 \o <<place>>
                 \o (IF Truthy(place) THEN <<location_name, location_id>> ELSE <<>>),
        set |-> [latitude |-> IF Truthy(geo) THEN latitude ELSE dflt.latitude,
                 longitude |-> IF Truthy(geo) THEN longitude ELSE dflt.longitude,
                 location_name |->
                     IF Truthy(place) THEN location_name ELSE dflt.location_name,
                 location_id |-> IF Truthy(place) THEN location_id ELSE dflt.location_id]]

\* lines 53-82
ParsePayload(d5) ==
    LET dflt == MediaItemDefaults
        \* photo
        photo == Get(d5, "2", PyNone)
        p1 == Item(Item(d5, "2"), "1")
        p9 == Item(p1, "9")
        is_edited == In("4", Item(d5, "2"))
        photoUrl == Item(p1, "1")
        photoWidth == Item(p9, "1")
        photoHeight == Item(p9, "2")
        exif == Get(p9, "5", PyNone)
        e == Item(p9, "5")
        make == Get(e, "1", PyNone)
        model == Get(e, "2", PyNone)
        aperture == And(Get(e, "4", PyNone), ToFloat("int32", Item(e, "4")))
        shutter_speed == And(Get(e, "5", PyNone), ToFloat("int32", Item(e, "5")))
        iso == Get(e, "6", PyNone)
        focal_length == And(Get(e, "7", PyNone), ToFloat("int32", Item(e, "7")))
        \* video
        video == Get(d5, "3", PyNone)
        v == Item(d5, "3")
        videoUrl == Item(Item(v, "2"), "1")
        v4 == Get(v, "4", PyNone)
        videoDuration == Get(Item(v, "4"), "1", PyNone)
        videoWidth == Get(Item(v, "4"), "4", PyNone)
        videoHeight == Get(Item(v, "4"), "5", PyNone)
        capture_frame_rate ==
            And(Get(Get(v, "6", EmptyDict), "4", PyNone),
                ToFloat("int64", Item(Item(v, "6"), "4")))
        encoded_frame_rate ==
            And(Get(Get(v, "6", EmptyDict), "5", PyNone),
                ToFloat("int64", Item(Item(v, "6"), "5")))
        \* micro video
        micro == Get(Get(Get(d5, "5", EmptyDict), "2", EmptyDict), "4", PyNone)
        m == Item(Item(Item(d5, "5"), "2"), "4")
        isPhoto == Truthy(photo)
        hasExif == isPhoto /\ Truthy(exif)
        isVideo == Truthy(video)
        hasV4 == isVideo /\ Truthy(v4)
        isMicro == Truthy(micro)
    IN [seen |->
            <<photo>>
            \o (IF isPhoto
                THEN <<is_edited, photoUrl, photoWidth, photoHeight, exif>>
                     \o (IF hasExif
                         THEN <<make, model, aperture, shutter_speed, iso, focal_length>>
                         ELSE <<>>)
                ELSE <<>>)
            \o <<video>>
            \o (IF isVideo
                THEN <<videoUrl, v4>>
                     \o (IF hasV4 THEN <<videoDuration, videoWidth, videoHeight>>
                         ELSE <<>>)
                     \o <<capture_frame_rate, encoded_frame_rate>>
                ELSE <<>>)
            \o <<micro>>
            \o (IF isMicro THEN <<Item(m, "1"), Item(m, "4"), Item(m, "5")>> ELSE <<>>),
        set |->
            [is_edited |-> IF isPhoto THEN is_edited ELSE dflt.is_edited,
             remote_url |-> IF isVideo THEN videoUrl
                            ELSE IF isPhoto THEN photoUrl ELSE dflt.remote_url,
             width |-> IF hasV4 THEN videoWidth
                       ELSE IF isPhoto THEN photoWidth ELSE dflt.width,
             height |-> IF hasV4 THEN videoHeight
                        ELSE IF isPhoto THEN photoHeight ELSE dflt.height,
             make |-> IF hasExif THEN make ELSE dflt.make,
             model |-> IF hasExif THEN model ELSE dflt.model,
             aperture |-> IF hasExif THEN aperture ELSE dflt.aperture,
             shutter_speed |-> IF hasExif THEN shutter_speed ELSE dflt.shutter_speed,
             iso |-> IF hasExif THEN iso ELSE dflt.iso,
             focal_length |-> IF hasExif THEN focal_length ELSE dflt.focal_length,
             duration |-> IF isMicro THEN Item(m, "1")
                          ELSE IF hasV4 THEN videoDuration ELSE dflt.duration,
             capture_frame_rate |->
                 IF isVideo THEN capture_frame_rate ELSE dflt.capture_frame_rate,
             encoded_frame_rate |->
                 IF isVideo THEN encoded_frame_rate ELSE dflt.encoded_frame_rate,
             is_micro_video |-> IF isMicro THEN Bool(TRUE) ELSE dflt.is_micro_video,
             micro_video_width |->
                 IF isMicro THEN Item(m, "4") ELSE dflt.micro_video_width,
             micro_video_height |->
                 IF isMicro THEN Item(m, "5") ELSE dflt.micro_video_height]]

\* the item of its three parts, or what raised first
MediaItemOf(made, location, payload) ==
    LET raised ==
            FirstRaise([i \in 1..Len(MediaItemArgumentOrder) |->
                           made[MediaItemArgumentOrder[i]]]
                       \o location.seen \o payload.seen)
    IN IF raised.k = "raise" THEN raised
       ELSE [k |-> "MediaItem",
             v |-> [c \in MediaColumns |->
                       IF c \in DOMAIN made THEN made[c]
                       ELSE IF c \in DOMAIN location.set THEN location.set[c]
                       ELSE payload.set[c]]]

ParseMediaItem(d) ==
    CHOOSE r \in
        {MediaItemOf(made, location, payload) :
         made \in {MediaItemArguments(d)},
         location \in {ParseLocation(Item(d, "17"))},
         payload \in {ParsePayload(Item(d, "5"))}} : TRUE

(***************************************************************************)
(* _parse_collection_item                                                  *)
(***************************************************************************)
CollectionItemArguments(d) ==
    LET d2 == Get(d, "2", EmptyDict)
        d10 == Get(d2, "10", EmptyDict)
        d19 == Get(d, "19", EmptyDict)
    IN [collection_media_key |-> Item(d, "1"),
        collection_album_id |->
            Get(Get(Get(d, "4", EmptyDict), "2", EmptyDict), "3", Str("")),
        cover_item_media_key |-> Get(Get(d2, "17", EmptyDict), "1", PyNone),
        start |-> Get(Get(d10, "6", EmptyDict), "1", PyNone),
        end |-> Get(Get(d10, "7", EmptyDict), "1", PyNone),
        last_activity_time_ms |-> Get(d10, "10", PyNone),
        title |-> Get(d2, "5", Str("Untitled")),
        total_items |-> Get(d2, "7", Num(0)),
        type |-> Get(d2, "8", Num(0)),
        sort_order |-> Get(d19, "1", Num(0)),
        is_custom_ordered |-> EqInt(Get(d19, "2", Num(0)), 1)]

CollectionItemArgumentOrder ==
    <<"collection_media_key", "collection_album_id", "cover_item_media_key", "start",
      "end", "last_activity_time_ms", "title", "total_items", "type", "sort_order",
      "is_custom_ordered">>

ParseCollectionItem(d) ==
    CHOOSE r \in
        {(LET raised ==
                      FirstRaise([i \in 1..Len(CollectionItemArgumentOrder) |->
                                     made[CollectionItemArgumentOrder[i]]])
              IN IF raised.k = "raise" THEN raised
                 ELSE [k |-> "CollectionItem", v |-> made]) :
         made \in {CollectionItemArguments(d)}} : TRUE

(***************************************************************************)
(* _parse_deletion_item: the pair (deletion_type, item_key); every         *)
(* exception inside it ends in the pair (0, None).                         *)
(***************************************************************************)
\* key paths that end in field "1" for every deletion type
DeletionPathsSameInner ==
    [type |-> <<1, 2, 4, 6>>, outer |-> <<"2", "3", "5", "7">>,
     inner |-> <<"1", "1", "1", "1">>]

\* the deletion types, and for each the path of its key under d["1"]
DeletionPaths ==
    [type |-> <<1, 2, 4, 6>>, outer |-> <<"2", "3", "5", "7">>,
     inner |-> <<"1", "1", "2", "1">>]

\* a decoder that keeps the type tag when the key is not found
ParseDeletionItemKeepsType(d) ==
    LET d1 == Item(d, "1")
        deletion_type == Item(d1, "1")
        known == {i \in 1..4 : EqInt(deletion_type, DeletionPaths.type[i]).v}
    IN IF deletion_type.k = "raise" \/ known = {} THEN [type |-> 0, key |-> PyNone]
       ELSE LET i == CHOOSE j \in known : TRUE
                key == Item(Item(d1, DeletionPaths.outer[i]), DeletionPaths.inner[i])
            IN [type |-> DeletionPaths.type[i],
                key |-> IF key.k = "raise" THEN PyNone ELSE key]

ParseDeletionItem(d) ==
    LET d1 == Item(d, "1")
        deletion_type == Item(d1, "1")
        unknown == [type |-> 0, key |-> PyNone]
        known == {i \in 1..4 : EqInt(deletion_type, DeletionPaths.type[i]).v}
    IN IF deletion_type.k = "raise" \/ known = {} THEN unknown
       ELSE LET i == CHOOSE j \in known : TRUE
                outer == DeletionPaths.outer[i]
                inner == DeletionPaths.inner[i]
                hasOuter == In(outer, d1)
                hasInner == In(inner, Item(d1, outer))
                key == Item(Item(d1, outer), inner)
            IN IF hasOuter.k = "raise" \/ ~Truthy(hasOuter) THEN unknown
               ELSE IF hasInner.k = "raise" \/ ~Truthy(hasInner) THEN unknown
               ELSE IF key.k = "raise" THEN unknown
               ELSE [type |-> DeletionPaths.type[i], key |-> key]

(***************************************************************************)
(* parse_db_update                                                         *)
(***************************************************************************)
\* the field as it is, a single record not wrapped into a list
GetItemsListAsIs(data, key) == Get(Item(data, "1"), key, List(<<>>))

\* _get_items_list
GetItemsList(data, key) ==
    CHOOSE r \in
        {(IF items.k = "dict" THEN List(<<items>>) ELSE items) :
         items \in {Get(Item(data, "1"), key, List(<<>>))}} : TRUE

\* the except handler of the media loop and of the collection loop: what
\* d.get("1", "unknown") evaluates to
Handler(d) == Get(d, "1", Str("unknown"))

ParseItem(kind, d) ==
    IF kind = "media" THEN ParseMediaItem(d) ELSE ParseCollectionItem(d)

\* the loop over the media records or the collection records still to visit, with
\* the entities appended so far
RECURSIVE ItemLoop(_, _, _)
ItemLoop(kind, todo, done) ==
    IF todo = <<>> THEN List(done)
    ELSE CHOOSE r \in
             {(IF item.k # "raise"
                   THEN ItemLoop(kind, Tail(todo), Append(done, item))
                   ELSE IF Handler(Head(todo)).k = "raise" THEN Handler(Head(todo))
                   ELSE ItemLoop(kind, Tail(todo), done)) :
              item \in {ParseItem(kind, Head(todo))}} : TRUE

\* a deletion loop that appends every key it is given, whatever the type
DeletionLoopUnrouted(types, todo, done) ==
    List([i \in 1..Len(SelectSeq(todo, LAMBDA d : Truthy(ParseDeletionItem(d).key)))
             |-> ParseDeletionItem(
                     SelectSeq(todo, LAMBDA d : Truthy(ParseDeletionItem(d).key))[i]).key])

\* a deletion loop that tests "item_key is not None": it appends an empty key
RECURSIVE DeletionLoopNotNone(_, _, _)
DeletionLoopNotNone(types, todo, done) ==
    IF todo = <<>> THEN List(done)
    ELSE CHOOSE r \in
             {(IF parsed.key.k # "none" /\ parsed.type \in types
                   THEN DeletionLoopNotNone(types, Tail(todo), Append(done, parsed.key))
                   ELSE DeletionLoopNotNone(types, Tail(todo), done)) :
              parsed \in {ParseDeletionItem(Head(todo))}} : TRUE

\* the loop over the deletion records: the keys of the deletions whose type is in
\* types, in input order
RECURSIVE DeletionLoop(_, _, _)
DeletionLoop(types, todo, done) ==
    IF todo = <<>> THEN List(done)
    ELSE CHOOSE r \in
             {(IF Truthy(parsed.key) /\ parsed.type \in types
                   THEN DeletionLoop(types, Tail(todo), Append(done, parsed.key))
                   ELSE DeletionLoop(types, Tail(todo), done)) :
              parsed \in {ParseDeletionItem(Head(todo))}} : TRUE

\* the lists of the loops
Loop(kind, items) ==
    CHOOSE r \in
        {(CASE it.k = "raise" -> it
                [] kind = "media_keys" -> DeletionLoop({1}, it.v, <<>>)
                [] kind = "collection_keys" -> DeletionLoop({2, 4, 6}, it.v, <<>>)
                [] OTHER -> ItemLoop(kind, it.v, <<>>)) :
         it \in {Iter(items)}} : TRUE

ParseDbUpdate(data) ==
    CHOOSE r \in
        {(LET raised == FirstRaise(parts)
              IN IF raised.k = "raise" THEN raised
                 ELSE [k |-> "tuple",
                       v |-> [next_page_token |-> parts[1], state_token |-> parts[2],
                              remote_media |-> parts[3].v, collections |-> parts[4].v,
                              media_keys_to_delete |-> parts[5].v,
                              collection_keys_to_delete |-> parts[6].v]]) :
         parts \in {<<Get(Item(data, "1"), "1", Str("")),
            Get(Item(data, "1"), "6", Str("")),
            Loop("media", GetItemsList(data, "2")),
            Loop("collection", GetItemsList(data, "3")),
            Loop("media_keys", GetItemsList(data, "9")),
            Loop("collection_keys", GetItemsList(data, "9"))>>}} : TRUE

\* an envelope that the fetch loop is about to hand to the decoder
Fetched(data) == [name |-> "envelope", h |-> 0, args |-> data]

\* the call of parse_db_update on the envelope
DecodePage ==
    /\ lastOp.name = "envelope"
    /\ Start(CHOOSE r \in
                 {(Op("parse_db_update", 0, lastOp.args, batch.k # "raise", batch)) :
                  batch \in {ParseDbUpdate(lastOp.args)}} : TRUE)
    /\ UNCHANGED <<db, conn, txn, sync>>

\* a deletion record that the deletion loop is about to hand to the decoder
Visited(d) == [name |-> "deletion", h |-> 0, args |-> d]

\* the call of _parse_deletion_item on the record
DecodeDeletion ==
    /\ lastOp.name = "deletion"
    /\ Start(CHOOSE r \in
                 {(Op("_parse_deletion_item", 0, lastOp.args, TRUE, parsed)) :
                  parsed \in {ParseDeletionItem(lastOp.args)}} : TRUE)
    /\ UNCHANGED <<db, conn, txn, sync>>

(***************************************************************************)
(* The queries of the cursor.  They read the committed file.               *)
(***************************************************************************)
\* SELECT state_token, page_token FROM state WHERE id = 1; fetchone() or ("", "")
GetStateTokens(h) ==
    /\ Idle(h)
    /\ LET rows == {<<r.state_token, r.page_token>> : r \in {x \in db.state : x.id = 1}}
       IN \E tokens \in (IF rows = {} THEN {<<"", "">>} ELSE rows) :
             Start(Op("get_state_tokens", h, None, TRUE, tokens))
    /\ UNCHANGED <<db, conn, txn, sync>>

\* SELECT init_complete FROM state WHERE id = 1; fetchone()[0] or False
GetInitState(h) ==
    /\ Idle(h)
    /\ \E row \in {r \in db.state : r.id = 1} :
          Start(Op("get_init_state", h, None, TRUE,
                    Or(Num(row.init_complete), Bool(FALSE))))
    /\ UNCHANGED <<db, conn, txn, sync>>

(***************************************************************************)
(* The inputs of the calls.                                                *)
(***************************************************************************)
CollectionBatches == SeqsUpTo(CollectionItems, MaxBatch)

MediaBatches == SeqsUpTo(MediaItems, MaxBatch)

\* keys a deletion may name: a primary key, an album id, the empty album id, a
\* dedup key, and a key that nothing holds
CollectionKeyLists == SeqsUpTo({"m1", "a1", "", "zz"}, MaxBatch)

MediaKeyLists == SeqsUpTo({"k1", "d1", "zz"}, MaxBatch)

Tokens == {"", "S1"}

OptionalTokens == {None} \cup {Some(t) : t \in Tokens}

\* the inputs of the specification that runs every operation from two
\* concurrent handles
Prefixes(s, n) == {SubSeq(s, 1, k) : k \in 0..n}

OneCollection(key, album) ==
    CHOOSE x \in CollectionItems :
        x.collection_media_key = key /\ x.collection_album_id = album

OneMedia(key, type) ==
    CHOOSE x \in MediaItems : x.media_key = key /\ x.type = type

FewCollectionBatches ==
    Prefixes(<<OneCollection("m1", "a1"), OneCollection("m2", "a1"),
               OneCollection("m1", ""), OneCollection("m2", "a2")>>, MaxBatch)
    \cup {<<OneCollection("m1", "")>>}

FewMediaBatches ==
    Prefixes(<<OneMedia("k1", 1), OneMedia("k2", 2), OneMedia("k1", 2),
               OneMedia("k2", 1)>>, MaxBatch)
    \cup {<<OneMedia("k1", 2)>>}

FewCollectionKeyLists == {<<>>, <<"m1">>, <<"a1">>}

FewMediaKeyLists == {<<>>, <<"k1">>, <<"zz">>}

FewTokens ==
    {<<None, None>>, <<Some("S1"), None>>, <<None, Some("S1")>>, <<Some(""), Some("")>>}

\* the pages of the sync loop
Pages ==
    { [remote_media |-> m, collections |-> c, media_keys_to_delete |-> mk,
       collection_keys_to_delete |-> ck, state_token |-> t[1],
       next_page_token |-> t[2]] :
      m \in {<<>>, <<OneMedia("k1", 1), OneMedia("k1", 2)>>},
      c \in {<<>>, <<OneCollection("m1", "a1")>>,
             <<OneCollection("m1", "a1"), OneCollection("m2", "a1")>>},
      mk \in {<<>>, <<"k1">>},
      ck \in {<<>>, <<"a1">>, <<"m1">>},
      t \in {<<None, None>>, <<Some("S1"), Some("")>>} }

(***************************************************************************)
(* Page envelopes: records that decode and records that do not.            *)
(***************************************************************************)
\* the record d with the value at the path of keys replaced (or added) by x
RECURSIVE SetPath(_, _, _)
SetPath(d, path, x) ==
    CHOOSE r \in
        {(LET key == Head(path)
                  new == IF Len(path) = 1 THEN x
                         ELSE SetPath(IF Has(y, key) THEN Lookup(y, key) ELSE EmptyDict,
                                      Tail(path), x)
              IN IF Has(y, key)
                 THEN Dict([i \in 1..Len(y.v) |->
                               IF y.v[i][1] = key THEN <<key, new>> ELSE y.v[i]])
                 ELSE Dict(Append(y.v, <<key, new>>))) :
         y \in {d}} : TRUE

\* the record d without the key
DelKey(d, key) == Dict(SelectSeq(d.v, LAMBDA p : p[1] # key))

PhotoRecord ==
    Dict(<<
      <<"1", Str("k1")>>,
      <<"2", Dict(<<
          <<"1", Dict(<< <<"1", Str("c1")>> >>)>>,
          <<"3", Str("cap")>>,
          <<"4", Str("a.jpg")>>,
          <<"5", List(<< Dict(<< <<"1", Num(5)>> >>) >>)>>,
          <<"7", Num(5)>>,
          <<"9", Num(6)>>,
          <<"10", Num(10)>>,
          <<"11", Num(1)>>,
          <<"16", EmptyDict>>,
          <<"21", Dict(<< <<"1", Str("d1")>> >>)>>,
          <<"26", Num(1)>>,
          <<"29", Dict(<< <<"1", Num(2)>> >>)>>,
          <<"30", Dict(<< <<"1", Num(1)>> >>)>>,
          <<"31", Dict(<< <<"1", Num(1)>> >>)>>,
          <<"35", Dict(<< <<"2", Num(10)>>, <<"3", Num(2)>> >>)>>,
          <<"39", Dict(<< <<"1", Num(2)>> >>)>> >>)>>,
      <<"5", Dict(<<
          <<"1", Num(1)>>,
          <<"2", Dict(<<
              <<"1", Dict(<<
                  <<"1", Str("u1")>>,
                  <<"9", Dict(<<
                      <<"1", Num(4)>>,
                      <<"2", Num(3)>>,
                      <<"5", Dict(<< <<"1", Str("mk")>>, <<"2", Str("md")>>,
                                     <<"4", Num(2)>>, <<"6", Num(100)>> >>)>> >>)>> >>)>>,
              <<"4", EmptyDict>> >>)>> >>)>>,
      <<"17", Dict(<<
          <<"1", Dict(<< <<"1", Num(1)>>, <<"2", Num(2)>> >>)>>,
          <<"5", Dict(<< <<"2", Dict(<< <<"1", Str("loc")>> >>)>>,
                         <<"3", Str("lid")>> >>)>> >>)>> >>)

VideoRecord ==
    Dict(<<
      <<"1", Str("k2")>>,
      <<"2", Dict(<<
          <<"1", Dict(<< <<"1", Str("c1")>> >>)>>,
          <<"4", Str("b.mp4")>>,
          <<"5", List(<< Dict(<< <<"1", Num(27)>> >>) >>)>>,
          <<"7", Num(7)>>,
          <<"8", Num(1)>>,
          <<"9", Num(8)>>,
          <<"10", Num(20)>>,
          <<"11", Num(1)>>,
          <<"13", Dict(<< <<"1", Bytes("fbff")>> >>)>>,
          <<"16", Dict(<< <<"3", Num(9)>> >>)>>,
          <<"21", Dict(<< <<"2", Str("x")>>, <<"1", Num(0)>> >>)>>,
          <<"26", Num(2)>>,
          <<"29", Dict(<< <<"1", Num(1)>> >>)>>,
          <<"30", Dict(<< <<"1", Num(4)>> >>)>>,
          <<"31", Dict(<< <<"1", Num(2)>> >>)>>,
          <<"35", Dict(<< <<"2", Num(0)>>, <<"3", Num(1)>> >>)>>,
          <<"39", Dict(<< <<"1", Num(1)>> >>)>> >>)>>,
      <<"5", Dict(<<
          <<"1", Num(2)>>,
          <<"3", Dict(<<
              <<"2", Dict(<< <<"1", Str("u2")>> >>)>>,
              <<"4", Dict(<< <<"1", Num(3)>>, <<"4", Num(2)>>, <<"5", Num(1)>> >>)>>,
              <<"6", Dict(<< <<"4", Num(30)>>, <<"5", Num(30)>> >>)>> >>)>> >>)>>,
      <<"17", EmptyDict>> >>)

\* media records: two that decode; one without its field "5"; one of an unknown
\* origin code; one whose field "2" is a list; one without its key; one whose
\* dedup key has neither form; two that are not mappings; and three of other
\* property sub-records: no key of prefix "1", a text under the key "15", and a
\* number under the key "1" before a text under the key "12"
MediaRecords ==
    <<PhotoRecord,
      VideoRecord,
      DelKey(PhotoRecord, "5"),
      SetPath(PhotoRecord, <<"2", "30", "1">>, Num(9)),
      SetPath(VideoRecord, <<"2">>, List(<<Str("oops")>>)),
      DelKey(VideoRecord, "1"),
      SetPath(VideoRecord, <<"2", "13", "1">>, Str("text")),
      List(<<Str("oops")>>),
      Str("oops"),
      SetPath(VideoRecord, <<"2", "21">>, Dict(<< <<"2", Str("x")>> >>)),
      SetPath(VideoRecord, <<"2", "21">>,
              Dict(<< <<"2", Str("x")>>, <<"15", Str("d5")>> >>)),
      SetPath(VideoRecord, <<"2", "21">>,
              Dict(<< <<"1", Num(0)>>, <<"12", Str("t")>> >>))>>

CollectionRecord ==
    Dict(<<
      <<"1", Str("m1")>>,
      <<"2", Dict(<<
          <<"5", Str("MyAlbum")>>,
          <<"7", Num(5)>>,
          <<"8", Num(1)>>,
          <<"10", Dict(<< <<"6", Dict(<< <<"1", Num(1)>> >>)>>,
                          <<"7", Dict(<< <<"1", Num(2)>> >>)>>,
                          <<"10", Num(2)>> >>)>>,
          <<"17", Dict(<< <<"1", Str("k1")>> >>)>> >>)>>,
      <<"4", Dict(<< <<"2", Dict(<< <<"3", Str("a1")>> >>)>> >>)>>,
      <<"19", Dict(<< <<"1", Num(1)>>, <<"2", Num(1)>> >>)>> >>)

\* collection records: a full one; one of the key alone; one without the key; one
\* whose field "2" is a list; and one that is not a mapping
CollectionRecords ==
    <<CollectionRecord,
      Dict(<< <<"1", Str("m2")>> >>),
      DelKey(CollectionRecord, "1"),
      SetPath(CollectionRecord, <<"2">>, List(<<>>)),
      Num(7)>>

DeletionRecord(type, outer, inner, key) ==
    Dict(<< <<"1", Dict(<< <<"1", Num(type)>>,
                           <<outer, Dict(<< <<inner, key>> >>)>> >>)>> >>)

\* deletion records: one of each type; an unknown type; a media deletion without
\* its key path; one of an empty key; one that is not a mapping; and a collection
\* deletion of an empty key
DeletionRecords ==
    <<DeletionRecord(1, "2", "1", Str("k1")),
      DeletionRecord(2, "3", "1", Str("m1")),
      DeletionRecord(4, "5", "2", Str("a1")),
      DeletionRecord(6, "7", "1", Str("m2")),
      DeletionRecord(99, "2", "1", Str("k1")),
      DeletionRecord(1, "3", "1", Str("k1")),
      DeletionRecord(1, "2", "1", Str("")),
      Str("oops"),
      DeletionRecord(4, "5", "2", Str(""))>>

\* how an envelope holds a repeated field: not at all, as the one record itself, or
\* as a list of records; idx are the positions of the records in the samples
FieldChoices(n, most) ==
    {[shape |-> "absent", idx |-> <<>>]}
    \cup {[shape |-> "single", idx |-> <<i>>] : i \in 1..n}
    \cup {[shape |-> "list", idx |-> s] : s \in SeqsUpTo(1..n, most)}

Field(key, records, choice) ==
    CASE choice.shape = "absent" -> <<>>
      [] choice.shape = "single" -> << <<key, records[choice.idx[1]]>> >>
      [] choice.shape = "list" ->
            << <<key, List([i \in 1..Len(choice.idx) |-> records[choice.idx[i]]])>> >>

TokenChoices == {<<>>, << <<"1", Str("P1")>>, <<"6", Str("S1")>> >>}

\* the envelope {"1": {...}} of the choices e
Envelope(e) ==
    Dict(<< <<"1", Dict(e.tokens \o Field("2", MediaRecords, e.media)
                        \o Field("3", CollectionRecords, e.collections)
                        \o Field("9", DeletionRecords, e.deletions))>> >>)

\* envelopes that vary one repeated field at a time
EnvelopeChoices ==
    LET none == [shape |-> "absent", idx |-> <<>>]
        one == [shape |-> "list", idx |-> <<1>>]
    IN {[tokens |-> t, media |-> m, collections |-> c, deletions |-> x] :
           t \in TokenChoices,
           m \in FieldChoices(Len(MediaRecords), MaxBatch),
           c \in {none, one},
           x \in {none, one}}
       \cup
       {[tokens |-> t, media |-> m, collections |-> c, deletions |-> x] :
           t \in TokenChoices,
           m \in {none, one},
           c \in FieldChoices(Len(CollectionRecords), MaxBatch),
           x \in {none, one}}
       \cup
       {[tokens |-> t, media |-> none, collections |-> none, deletions |-> x] :
           t \in TokenChoices,
           x \in FieldChoices(Len(DeletionRecords), MaxBatch)}

(***************************************************************************)
(* The store after the first Storage(db_path) on a new file.               *)
(***************************************************************************)
Init ==
    /\ db = CreateTables(EmptyFile)
    /\ conn = [h \in Handles |-> IF h = 1 THEN "open" ELSE "closed"]
    /\ txn = NoTxn
    /\ lastOp = NoOp
    /\ prevUpsert = NoOp
    /\ sync = NoSync

Transaction == TxnStep \/ TxnCommit \/ TxnFail

Lifecycle == \E h \in Handles : Open(h) \/ Close(h)

CollectionCalls ==
    \E h \in Handles :
        \/ \E items \in CollectionBatches : UpdateCollections(h, items)
        \/ \E keys \in CollectionKeyLists : DeleteCollections(h, keys)
        \/ \E key \in CollectionKeys \cup {"zz"} : GetCollectionById(h, key)

MediaCalls ==
    \E h \in Handles :
        \/ \E items \in MediaBatches : Update(h, items)
        \/ \E keys \in MediaKeyLists : Delete(h, keys)

CursorCalls ==
    \E h \in Handles :
        \/ \E s \in OptionalTokens, p \in OptionalTokens : UpdateStateTokens(h, s, p)
        \/ \E v \in {0, 1} : SetInitState(h, v)

CursorReads == \E h \in Handles : GetStateTokens(h) \/ GetInitState(h)

\* the calls on few inputs, with the outcome "database is locked"
FewCollectionCalls ==
    \E h \in Handles :
        \/ \E items \in FewCollectionBatches :
              UpdateCollections(h, items) \/ Locked(h, "update_collections", items)
        \/ \E keys \in FewCollectionKeyLists :
              DeleteCollections(h, keys) \/ Locked(h, "delete_collections", keys)
        \/ \E key \in CollectionKeys : GetCollectionById(h, key)

FewMediaCalls ==
    \E h \in Handles :
        \/ \E items \in FewMediaBatches :
              Update(h, items) \/ Locked(h, "update", items)
        \/ \E keys \in FewMediaKeyLists :
              Delete(h, keys) \/ Locked(h, "delete", keys)

\* the four batch calls on few inputs, empty batches among them
BatchCalls ==
    \E h \in Handles :
        \/ \E items \in FewCollectionBatches : UpdateCollections(h, items)
        \/ \E keys \in FewCollectionKeyLists : DeleteCollections(h, keys)
        \/ \E items \in FewMediaBatches : Update(h, items)
        \/ \E keys \in FewMediaKeyLists : Delete(h, keys)

\* every operation on very few inputs, with the outcome "database is locked"
EveryCall ==
    \E h \in Handles :
        \/ \E items \in {<<>>, <<OneCollection("m1", "a1")>>} :
              UpdateCollections(h, items) \/ Locked(h, "update_collections", items)
        \/ \E keys \in {<<"m1">>} :
              DeleteCollections(h, keys) \/ Locked(h, "delete_collections", keys)
        \/ \E items \in {<<>>, <<OneMedia("k1", 1)>>} :
              Update(h, items) \/ Locked(h, "update", items)
        \/ \E keys \in {<<"k1">>} :
              Delete(h, keys) \/ Locked(h, "delete", keys)
        \/ \E t \in FewTokens :
              \/ UpdateStateTokens(h, t[1], t[2])
              \/ Locked(h, "update_state_tokens", [state_token |-> t[1], page_token |-> t[2]])
        \/ \E v \in {0, 1} : SetInitState(h, v) \/ Locked(h, "set_init_state", v)
        \/ GetCollectionById(h, "m1")

\* single records of both tables
RecordCalls ==
    \E h \in Handles :
        \/ \E items \in SeqsUpTo(CollectionItems, 1) : UpdateCollections(h, items)
        \/ \E items \in SeqsUpTo({x \in MediaItems : x.media_key = "k1"}, 1) :
              Update(h, items)
        \/ \E key \in CollectionKeys : GetCollectionById(h, key)

\* collections that share their titles, or differ in them by letter case only,
\* with every last_activity_time_ms
TitledItems ==
    { [OneCollection(k, "a1") EXCEPT !.title = t, !.last_activity_time_ms = a] :
      k \in CollectionKeys, t \in {"MyAlbum", "myalbum"},
      a \in {None, Some(1), Some(2)} }

\* batches of one collection, and the batch of two that share a title
TitledBatches ==
    SeqsUpTo(TitledItems, 1)
    \cup {<<[OneCollection("m1", "a1") EXCEPT !.last_activity_time_ms = Some(1)],
            [OneCollection("m2", "a1") EXCEPT !.last_activity_time_ms = Some(2)]>>}

Titles == {"MyAlbum", "myalbum", "NonExistent"}

TitleCalls ==
    \E h \in Handles :
        \/ \E items \in TitledBatches : UpdateCollections(h, items)
        \/ \E keys \in {<<"m1">>} : DeleteCollections(h, keys)
        \/ \E title \in Titles : GetCollectionByTitle(h, title)

\* collections of three keys, with every last_activity_time_ms
ListedKeys == {"m1", "m2", "m3"}

ListedItems ==
    { [OneCollection("m1", "a1") EXCEPT !.collection_media_key = k,
                                        !.last_activity_time_ms = a] :
      k \in ListedKeys, a \in {None, Some(1), Some(2)} }

\* limit: int | None
Limits == {None} \cup {Some(n) : n \in 0..(MaxBatch + 1)}

ListingCalls ==
    \E h \in Handles :
        \/ \E item \in ListedItems : UpdateCollections(h, <<item>>)
        \/ \E key \in ListedKeys : DeleteCollections(h, <<key>>)
        \/ \E limit \in Limits : GetCollections(h, limit)

\* one session at a time: a call starts when no other call is in progress
NextCollections == Transaction \/ (txn.h = 0 /\ (Lifecycle \/ CollectionCalls))

NextMedia == Transaction \/ (txn.h = 0 /\ (Lifecycle \/ MediaCalls))

NextCursor == Transaction \/ (txn.h = 0 /\ (Lifecycle \/ CursorCalls \/ CursorReads))

\* a store whose cursor is never written
NextFresh == Transaction \/ (txn.h = 0 /\ (Lifecycle \/ RecordCalls \/ CursorReads))

NextRecords == Transaction \/ (txn.h = 0 /\ (Lifecycle \/ RecordCalls))

NextTitles == Transaction \/ (txn.h = 0 /\ (Lifecycle \/ TitleCalls))

NextListing == Transaction \/ (txn.h = 0 /\ (Lifecycle \/ ListingCalls))

\* handle 1 clears init_complete and reads; handle 2 sets it and writes the state
\* token; the handles run concurrently
NestedCalls ==
    \/ SetInitState(1, 0)
    \/ Locked(1, "set_init_state", 0)
    \/ SetInitState(2, 1)
    \/ Locked(2, "set_init_state", 1)
    \/ UpdateStateTokens(2, Some("S1"), None)
    \/ Locked(2, "update_state_tokens", [state_token |-> Some("S1"), page_token |-> None])
    \/ \E h \in Handles : GetInitState(h) \/ GetStateTokens(h)

NextNested == Lifecycle \/ Transaction \/ NestedCalls

\* batches that repeat a primary key
DuplicateCalls ==
    \E h \in Handles :
        \/ \E items \in SeqsUpTo({c \in CollectionItems : c.collection_media_key = "m1"},
                                 MaxBatch)
                         \cup {<<OneCollection("m2", "a1")>>} :
              UpdateCollections(h, items)
        \/ \E items \in SeqsUpTo({x \in MediaItems : x.media_key = "k1"}, MaxBatch) :
              Update(h, items)
        \/ DeleteCollections(h, <<"m1">>)
        \/ Delete(h, <<"k1">>)

NextDuplicates == Transaction \/ (txn.h = 0 /\ (Lifecycle \/ DuplicateCalls))

\* the queries, on a title that is stored and on one that is not
QueryCalls ==
    \E h \in Handles :
        \/ \E limit \in {None, Some(1)} : GetCollections(h, limit)
        \/ \E title \in {"MyAlbum", "zz"} : GetCollectionByTitle(h, title)
        \/ GetStateTokens(h)
        \/ GetInitState(h)

\* every operation and every query, from handles that run concurrently
NextFrame == Lifecycle \/ Transaction \/ EveryCall \/ QueryCalls

\* the four batch calls, from handles that run concurrently
NextBatches == Lifecycle \/ Transaction \/ BatchCalls

\* the two item tables, from handles that run concurrently
NextTables == Lifecycle \/ Transaction \/ FewCollectionCalls \/ FewMediaCalls

\* every operation, from handles that run concurrently
Next == Lifecycle \/ Transaction \/ EveryCall

\* the sync loop alone, with crashes
NextSync ==
    \/ \E page \in Pages : SyncStart(1, page)
    \/ SyncCall
    \/ TxnStep
    \/ TxnCommit
    \/ SyncCrash
    \/ SyncEnd

SpecCollections == Init /\ [][NextCollections]_vars

SpecMedia == Init /\ [][NextMedia]_vars

SpecCursor == Init /\ [][NextCursor]_vars

SpecRecords == Init /\ [][NextRecords]_vars

SpecTables == Init /\ [][NextTables]_vars

SpecTitles == Init /\ [][NextTitles]_vars

SpecFresh == Init /\ [][NextFresh]_vars

SpecBatches == Init /\ [][NextBatches]_vars

SpecListing == Init /\ [][NextListing]_vars

SpecFrame == Init /\ [][NextFrame]_vars

SpecDuplicates == Init /\ [][NextDuplicates]_vars

SpecNested == Init /\ [][NextNested]_vars

Spec == Init /\ [][Next]_vars

SpecSync == Init /\ [][NextSync]_vars

\* the decoder alone, on each of the envelopes
InitParser ==
    /\ db = CreateTables(EmptyFile)
    /\ conn = [h \in Handles |-> "closed"]
    /\ txn = NoTxn
    /\ \E e \in EnvelopeChoices : lastOp = Fetched(Envelope(e))
    /\ prevUpsert = NoOp
    /\ sync = NoSync

NextParser == DecodePage

SpecParser == InitParser /\ [][NextParser]_vars

\* deletion records of other shapes, after those of the page samples
OtherDeletions ==
    DeletionRecords
    \o <<EmptyDict,
          Dict(<< <<"1", Str("oops")>> >>),
          Dict(<< <<"1", Dict(<< <<"1", Num(99)>> >>)>> >>),
          Dict(<< <<"1", Dict(<< <<"1", Num(1)>>, <<"2", Str("1")>> >>)>> >>),
          Dict(<< <<"1", Dict(<< <<"1", Str("1")>>,
                                 <<"2", Dict(<< <<"1", Str("k1")>> >>)>> >>)>> >>),
          Dict(<< <<"1", Dict(<< <<"2", Dict(<< <<"1", Str("k1")>> >>)>> >>)>> >>)>>

DeletionKeys == <<Str("a1"), Str(""), PyNone>>

\* deletion records: every tag with every key path and a key, an empty key or
\* None (other = 0), and the records of other shapes (other their position)
DeletionChoices ==
    {[type |-> t, outer |-> o, inner |-> i, key |-> k, other |-> 0] :
        t \in {0, 1, 2, 3, 4, 6, 99}, o \in {"2", "3", "5", "7"}, i \in {"1", "2"},
        k \in 1..Len(DeletionKeys)}
    \cup {[type |-> 0, outer |-> "2", inner |-> "1", key |-> 1, other |-> n] :
             n \in 1..Len(OtherDeletions)}

DeletionInput(c) ==
    IF c.other = 0 THEN DeletionRecord(c.type, c.outer, c.inner, DeletionKeys[c.key])
    ELSE OtherDeletions[c.other]

\* the deletion decoder alone, on each of the records
InitDeletion ==
    /\ db = CreateTables(EmptyFile)
    /\ conn = [h \in Handles |-> "closed"]
    /\ txn = NoTxn
    /\ \E c \in DeletionChoices : lastOp = Visited(DeletionInput(c))
    /\ prevUpsert = NoOp
    /\ sync = NoSync

NextDeletion == DecodeDeletion

SpecDeletion == InitDeletion /\ [][NextDeletion]_vars

\* the decoder of pages and the decoder of deletion records
InitDecoder ==
    /\ db = CreateTables(EmptyFile)
    /\ conn = [h \in Handles |-> "closed"]
    /\ txn = NoTxn
    /\ \/ \E e \in EnvelopeChoices : lastOp = Fetched(Envelope(e))
       \/ \E c \in DeletionChoices : lastOp = Visited(DeletionInput(c))
    /\ prevUpsert = NoOp
    /\ sync = NoSync

NextDecoder == DecodePage \/ DecodeDeletion

SpecDecoder == InitDecoder /\ [][NextDecoder]_vars

(***************************************************************************)
(* Properties.                                                             *)
(***************************************************************************)
\* the step in which a call of one of the names commits
Commits(names) ==
    /\ txn.h # 0
    /\ txn.name \in names
    /\ txn' = NoTxn
    /\ lastOp'.ok

\* the call that commits is a one-record upsert into the table in which the last
\* call to return, a successful one-record upsert, wrote
UpsertAfterUpsert ==
    /\ Commits({"update", "update_collections"})
    /\ Len(txn.args) = 1
    /\ prevUpsert.name = txn.name

\* the rows of d that hold the key of item x of the table that the call name writes
RowsOf(d, name, x) ==
    IF name = "update"
    THEN {r \in d.remote_media : r.media_key = x.media_key}
    ELSE {r \in d.collections : r.collection_media_key = x.collection_media_key}

RowFor(name, x) == IF name = "update" THEN MediaRow(x) ELSE CollectionRow(x)

KeyOf(name, x) == IF name = "update" THEN x.media_key ELSE x.collection_media_key

\* C1: upserting the record x a second time, right after upserting it, leaves the
\* tables as the first call left them, with exactly one row for x's key, which
\* carries x's values
C1_IdempotentUpsert ==
    [][ (UpsertAfterUpsert /\ prevUpsert.args = txn.args)
        => /\ db' = db
           /\ RowsOf(db', txn.name, txn.args[1]) = {RowFor(txn.name, txn.args[1])} ]_vars

C1_Witness ==
    /\ lastOp.name = "update_collections"
    /\ lastOp.ok
    /\ Len(lastOp.args) = 1
    /\ prevUpsert.name = lastOp.name
    /\ prevUpsert.args = lastOp.args
    /\ Cardinality(db.collections) = 2

\* C2: upserting A and then B, of the same key, leaves exactly one row for the key
\* and it is B's row in every column, also where B holds None and A held a value
C2_LastWriteWins ==
    [][ (/\ UpsertAfterUpsert
         /\ KeyOf(txn.name, prevUpsert.args[1]) = KeyOf(txn.name, txn.args[1]))
        => RowsOf(db', txn.name, txn.args[1]) = {RowFor(txn.name, txn.args[1])} ]_vars

C2_Witness ==
    /\ lastOp.name = "update_collections"
    /\ lastOp.ok
    /\ Len(lastOp.args) = 1
    /\ prevUpsert.name = lastOp.name
    /\ prevUpsert.args[1].collection_media_key = lastOp.args[1].collection_media_key
    /\ prevUpsert.args[1].cover_item_media_key # None
    /\ lastOp.args[1].cover_item_media_key = None
    /\ \A r \in db.collections :
          r.collection_media_key = lastOp.args[1].collection_media_key
          => r.cover_item_media_key = None

\* C3: get_collection_by_id(x.collection_media_key) right after
\* update_collections([x]) returns x, is_custom_ordered a boolean equal to x's,
\* through the writing handle or another one
C3_RoundTrip ==
    (/\ lastOp.name = "get_collection_by_id"
     /\ prevUpsert.name = "update_collections"
     /\ lastOp.args = prevUpsert.args[1].collection_media_key)
    => lastOp.result = Some(prevUpsert.args[1])

C3_Witness ==
    /\ lastOp.name = "get_collection_by_id"
    /\ prevUpsert.name = "update_collections"
    /\ lastOp.args = prevUpsert.args[1].collection_media_key
    /\ lastOp.result # None
    /\ lastOp.result[1].is_custom_ordered = TRUE
    /\ lastOp.h # prevUpsert.h
    /\ conn[prevUpsert.h] = "closed"

\* C4: delete_collections(K), K not empty, leaves exactly the rows whose
\* collection_media_key is not in K and whose collection_album_id is not in K
C4_AlternateKeyDeletion ==
    [][ Commits({"delete_collections"})
        => /\ db'.collections =
                {r \in db.collections :
                    /\ r.collection_media_key \notin Range(txn.args)
                    /\ r.collection_album_id \notin Range(txn.args)}
           /\ db'.remote_media = db.remote_media
           /\ db'.state = db.state ]_vars

\* a collection upserted under album id a1 is gone after delete_collections(["a1"]),
\* and a collection of another key and album id is still there
C4_Witness ==
    /\ lastOp.name = "delete_collections"
    /\ lastOp.ok
    /\ lastOp.args = <<"a1">>
    /\ prevUpsert.name = "update_collections"
    /\ prevUpsert.args[1].collection_album_id = "a1"
    /\ \A r \in db.collections :
          r.collection_media_key # prevUpsert.args[1].collection_media_key
    /\ \E r \in db.collections : r.collection_album_id = "a2"

\* C5: what the other handles can read changes only at the commit of a batch, and
\* then from the tables before the batch to the tables with the whole batch applied
C5_BatchAtomicity ==
    [][ db' # db
        => /\ txn.h # 0
           /\ db = txn.base
           /\ db' = Run(txn.name, txn.base, txn.args) ]_vars

\* a read through the other handle, between the two statements of a batch, that
\* does not see the row the first statement upserted
C5_Witness ==
    /\ txn.h # 0
    /\ txn.name = "update_collections"
    /\ Len(txn.args) = 2
    /\ lastOp.name = "get_collection_by_id"
    /\ lastOp.h # txn.h
    /\ lastOp.stage = <<1, 1>>
    /\ lastOp.args = txn.args[1].collection_media_key
    /\ lastOp.result = None

\* C6: the state table holds exactly one row, and its id is 1
C6_SingletonCursor ==
    /\ Cardinality(db.state) = 1
    /\ \A r \in db.state : r.id = 1

\* after a second handle was opened and the cursor was written
C6_Witness ==
    /\ \A h \in Handles : conn[h] = "open"
    /\ lastOp.name = "set_init_state"
    /\ lastOp.ok
    /\ lastOp.h = 2
    /\ \E r \in db.state : r.state_token = "S1" /\ r.init_complete = 1
    /\ db.collections # {}
    /\ db.remote_media # {}

\* C7: no two rows of a table share its primary key
C7_PrimaryKeyUnique ==
    /\ \A r1, r2 \in db.collections :
          r1.collection_media_key = r2.collection_media_key => r1 = r2
    /\ \A r1, r2 \in db.remote_media : r1.media_key = r2.media_key => r1 = r2

\* two collections that share album id and title, after a row was replaced
C7_Witness ==
    /\ lastOp.name = "update_collections"
    /\ lastOp.ok
    /\ \E r1, r2 \in db.collections :
          /\ r1.collection_media_key # r2.collection_media_key
          /\ r1.collection_album_id = r2.collection_album_id
          /\ r1.title = r2.title
    /\ \E r \in db.remote_media : r.type = 2 /\ r.media_key = "k1"

\* C8: when the five calls of a page have returned, after any number of crashes at
\* any point of earlier attempts, both tables and the cursor are what one
\* uninterrupted application of the page to the store of the first attempt leaves
C8_SafeReapplication ==
    (sync # NoSync /\ sync.step = Len(SyncNames) /\ txn.h = 0)
    => db = ApplyPage(sync.base, sync.page)

\* a page with all five parts, applied to a store that held rows, after the process
\* died once all five calls had started
C8_Witness ==
    /\ sync # NoSync
    /\ sync.step = Len(SyncNames)
    /\ txn.h = 0
    /\ sync.crashes > 0
    /\ sync.after = Len(SyncNames)
    /\ \A k \in 1..4 : SyncArgs(sync.page)[k] # <<>>
    /\ sync.page.state_token # None
    /\ sync.base.collections # {}
    /\ sync.base.remote_media # {}
    /\ db # sync.base

\* the records of a repeated field of the envelope that the loop visits, and those
\* that decode
Records(data, key) ==
    CHOOSE r \in
        {(IF it.k = "raise" THEN <<>> ELSE it.v) :
         it \in {Iter(GetItemsList(data, key))}} : TRUE

Decodes(key, d) ==
    IF key = "2" THEN ParseMediaItem(d).k # "raise"
    ELSE ParseCollectionItem(d).k # "raise"

Decoding(data, key) == SelectSeq(Records(data, key), LAMBDA d : Decodes(key, d))

Mixed(data, key) ==
    /\ Decoding(data, key) # <<>>
    /\ Len(Decoding(data, key)) < Len(Records(data, key))

\* the envelope without the media and collection records that fail to decode
WithoutFailing(data) ==
    LET media == SetPath(data, <<"1", "2">>, List(Decoding(data, "2")))
    IN SetPath(media, <<"1", "3">>, List(Decoding(data, "3")))

\* C9: of an envelope whose media list or collection list holds records that
\* decode and records that fail, parse_db_update returns a batch: the entities of
\* the records that decode, in input order, and the tokens it returns for the
\* envelope without the failing records
C9_PerItemIsolation ==
    (/\ lastOp.name = "parse_db_update"
     /\ Mixed(lastOp.args, "2") \/ Mixed(lastOp.args, "3"))
    => /\ lastOp.ok
       /\ lastOp.result.v.remote_media =
              [i \in 1..Len(Decoding(lastOp.args, "2")) |->
                  ParseMediaItem(Decoding(lastOp.args, "2")[i])]
       /\ lastOp.result.v.collections =
              [i \in 1..Len(Decoding(lastOp.args, "3")) |->
                  ParseCollectionItem(Decoding(lastOp.args, "3")[i])]
       /\ ParseDbUpdate(WithoutFailing(lastOp.args)).k # "raise"
       /\ lastOp.result.v.state_token =
              ParseDbUpdate(WithoutFailing(lastOp.args)).v.state_token
       /\ lastOp.result.v.next_page_token =
              ParseDbUpdate(WithoutFailing(lastOp.args)).v.next_page_token

\* C10: of an envelope that has its field "1", parse_db_update returns a batch,
\* whatever the shape of the media, collection and deletion records
C10_NoTotalPageFailure ==
    (lastOp.name = "parse_db_update" /\ Has(lastOp.args, "1")) => lastOp.ok

\* the type tag of a deletion record, and whether the record holds a key at the
\* path of its tag
TypeTag(d) == Item(Item(d, "1"), "1")

Tagged(d, types) == \E t \in types : Truthy(EqInt(TypeTag(d), t))

KeyDecoded(d) == ParseDeletionItem(d).key.k # "none"

KeysOf(records) == [i \in 1..Len(records) |-> ParseDeletionItem(records[i]).key]

\* C11 as stated: media_keys_to_delete holds the keys of the deletion records of
\* tag 1 whose key is decoded, collection_keys_to_delete those of tag 2, 4 or 6
\* whose key is decoded, each in input order, and no other record adds a key
C11_DeletionRoutingAsStated ==
    (lastOp.name = "parse_db_update" /\ lastOp.ok)
    => /\ lastOp.result.v.media_keys_to_delete =
              KeysOf(SelectSeq(Records(lastOp.args, "9"),
                               LAMBDA d : Tagged(d, {1}) /\ KeyDecoded(d)))
       /\ lastOp.result.v.collection_keys_to_delete =
              KeysOf(SelectSeq(Records(lastOp.args, "9"),
                               LAMBDA d : Tagged(d, {2, 4, 6}) /\ KeyDecoded(d)))

\* C11: media_keys_to_delete holds the keys of the deletion records of tag 1 whose
\* key is decoded and is not empty, collection_keys_to_delete those of tag 2, 4 or
\* 6 whose key is decoded and is not empty, each in input order; no other record
\* adds a key, so a record adds at most one key to at most one of the lists
C11_DeletionRouting ==
    (lastOp.name = "parse_db_update" /\ lastOp.ok)
    => /\ lastOp.result.v.media_keys_to_delete =
              KeysOf(SelectSeq(Records(lastOp.args, "9"),
                               LAMBDA d : /\ Tagged(d, {1})
                                          /\ KeyDecoded(d)
                                          /\ Truthy(ParseDeletionItem(d).key)))
       /\ lastOp.result.v.collection_keys_to_delete =
              KeysOf(SelectSeq(Records(lastOp.args, "9"),
                               LAMBDA d : /\ Tagged(d, {2, 4, 6})
                                          /\ KeyDecoded(d)
                                          /\ Truthy(ParseDeletionItem(d).key)))
       /\ Len(lastOp.result.v.media_keys_to_delete)
              + Len(lastOp.result.v.collection_keys_to_delete)
          =< Len(Records(lastOp.args, "9"))

\* a page of a media deletion and a collection deletion of type 4, each routed to
\* its list
C11_Witness ==
    /\ lastOp.name = "parse_db_update"
    /\ lastOp.ok
    /\ Len(Records(lastOp.args, "9")) = 2
    /\ lastOp.result.v.media_keys_to_delete = <<Str("k1")>>
    /\ lastOp.result.v.collection_keys_to_delete = <<Str("a1")>>

\* the value at d["1"][outer][inner], or an exception when there is none
KeyAt(d, outer, inner) == Item(Item(Item(d, "1"), outer), inner)

\* the record has the type tag and a key at the path
TagAndKey(d, tag, outer, inner) ==
    /\ Truthy(EqInt(TypeTag(d), tag))
    /\ KeyAt(d, outer, inner).k # "raise"

\* C12: _parse_deletion_item returns (1, k) for tag 1 and k at ["1"]["2"]["1"],
\* (2, k) for tag 2 and k at ["1"]["3"]["1"], (4, k) for tag 4 and k at
\* ["1"]["5"]["2"], (6, k) for tag 6 and k at ["1"]["7"]["1"]; and whenever it
\* returns a key, the type it returns is the type tag of the record
C12_DeletionKeyPaths ==
    lastOp.name = "_parse_deletion_item"
    => /\ TagAndKey(lastOp.args, 1, "2", "1")
             => lastOp.result = [type |-> 1, key |-> KeyAt(lastOp.args, "2", "1")]
       /\ TagAndKey(lastOp.args, 2, "3", "1")
             => lastOp.result = [type |-> 2, key |-> KeyAt(lastOp.args, "3", "1")]
       /\ TagAndKey(lastOp.args, 4, "5", "2")
             => lastOp.result = [type |-> 4, key |-> KeyAt(lastOp.args, "5", "2")]
       /\ TagAndKey(lastOp.args, 6, "7", "1")
             => lastOp.result = [type |-> 6, key |-> KeyAt(lastOp.args, "7", "1")]
       /\ lastOp.result.key.k # "none"
             => Truthy(EqInt(TypeTag(lastOp.args), lastOp.result.type))

\* the record {"1": {"1": 4, "5": {"2": "a1"}}} decoded to (4, "a1")
C12_Witness ==
    /\ lastOp.name = "_parse_deletion_item"
    /\ lastOp.args = DeletionRecord(4, "5", "2", Str("a1"))
    /\ lastOp.result = [type |-> 4, key |-> Str("a1")]

\* the collections of the store that have the title
Titled(title) == {r \in db.collections : r.title = title}

\* C13: when several collections have the title t, get_collection_by_title(t)
\* returns one of them, and none of them has a greater last_activity_time_ms,
\* a collection without one counting below every collection that has one
C13_TitleTieBreak ==
    (/\ lastOp.name = "get_collection_by_title"
     /\ Cardinality(Titled(lastOp.args)) > 1)
    => /\ lastOp.result # None
       /\ CollectionRow(lastOp.result[1]) \in Titled(lastOp.args)
       /\ \A r \in Titled(lastOp.args) :
             r.last_activity_time_ms # None
             => /\ lastOp.result[1].last_activity_time_ms # None
                /\ lastOp.result[1].last_activity_time_ms[1] >= r.last_activity_time_ms[1]

\* the collection of the greater time is returned although the one of the smaller
\* time was upserted after it
C13_Witness ==
    /\ lastOp.name = "get_collection_by_title"
    /\ lastOp.args = "MyAlbum"
    /\ Cardinality(Titled("MyAlbum")) = 2
    /\ lastOp.result # None
    /\ lastOp.result[1].last_activity_time_ms = Some(2)
    /\ prevUpsert.name = "update_collections"
    /\ prevUpsert.args[1].title = "MyAlbum"
    /\ prevUpsert.args[1].last_activity_time_ms = Some(1)
    /\ prevUpsert.args[1].collection_media_key # lastOp.result[1].collection_media_key

\* C14: get_collection_by_title(t) returns None exactly when no stored collection
\* has the title t, and a collection it returns is a stored one of title t; a
\* collection whose title differs from t in letter case only is not returned
C14_ExactTitleMatch ==
    lastOp.name = "get_collection_by_title"
    => /\ lastOp.result = None <=> Titled(lastOp.args) = {}
       /\ lastOp.result # None
             => /\ lastOp.result[1].title = lastOp.args
                /\ CollectionRow(lastOp.result[1]) \in db.collections

\* a lookup of "myalbum" that returns None from a store that holds "MyAlbum"
C14_Witness ==
    /\ lastOp.name = "get_collection_by_title"
    /\ lastOp.args = "myalbum"
    /\ lastOp.result = None
    /\ Titled("MyAlbum") # {}
    /\ Titled("myalbum") = {}

\* the cursor row of the tables d
StateRow(d) == CHOOSE r \in d.state : r.id = 1

NotPassed == [state_token |-> None, page_token |-> None]

\* C15: an update_state_tokens that commits sets the tokens it was passed, an
\* empty string included, and leaves the other token, init_complete and both item
\* tables as they were; a call that is passed no token changes nothing; and
\* get_state_tokens returns the two tokens of the cursor row
C15_PartialCursorUpdate ==
    /\ [](lastOp.name = "get_state_tokens"
            => lastOp.result = <<StateRow(db).state_token, StateRow(db).page_token>>)
    /\ [][ /\ Commits({"update_state_tokens"})
              => /\ txn.args # NotPassed
                 /\ db'.state =
                       {[id |-> 1,
                         state_token |-> IF txn.args.state_token = None
                                         THEN StateRow(db).state_token
                                         ELSE txn.args.state_token[1],
                         page_token |-> IF txn.args.page_token = None
                                        THEN StateRow(db).page_token
                                        ELSE txn.args.page_token[1],
                         init_complete |-> StateRow(db).init_complete]}
                 /\ db'.collections = db.collections
                 /\ db'.remote_media = db.remote_media
           /\ (/\ lastOp'.name = "update_state_tokens"
               /\ lastOp'.args = NotPassed)
              => lastOp'.ok /\ db' = db ]_vars

\* update_state_tokens(state_token="") has emptied the state token of a cursor
\* whose page token and init_complete were set before and are still set
C15_Witness ==
    /\ lastOp.name = "update_state_tokens"
    /\ lastOp.ok
    /\ lastOp.args = [state_token |-> Some(""), page_token |-> None]
    /\ StateRow(db) = [id |-> 1, state_token |-> "", page_token |-> "S1",
                       init_complete |-> 1]

\* C16: while no update_state_tokens and no set_init_state has been called on the
\* store, get_state_tokens returns ("", "") and get_init_state returns False
C16_CursorDefaults ==
    /\ lastOp.name = "get_state_tokens" => lastOp.result = <<"", "">>
    /\ lastOp.name = "get_init_state"
          => lastOp.result.k = "bool" /\ lastOp.result.v = FALSE

\* get_init_state through a second handle, after collections were stored
C16_Witness ==
    /\ lastOp.name = "get_init_state"
    /\ lastOp.h = 2
    /\ lastOp.result.k = "bool"
    /\ lastOp.result.v = FALSE
    /\ db.collections # {}
    /\ StateRow(db).state_token = ""

\* no key of the list is the collection_media_key or the collection_album_id of a
\* row of the tables d
Absent(keys, d) ==
    \A k \in Range(keys) :
        \A r \in d.collections : r.collection_media_key # k /\ r.collection_album_id # k

\* C17: delete_collections(K), K empty or of keys that are no stored
\* collection_media_key and no stored collection_album_id, returns without an
\* error of its own and leaves the collections, the media and the cursor unchanged
C17_AbsentKeyDeletion ==
    [][ /\ (Commits({"delete_collections"}) /\ Absent(txn.args, db)) => db' = db
        /\ (lastOp'.name = "delete_collections" /\ lastOp'.args = <<>>)
              => lastOp'.ok /\ db' = db ]_vars

\* delete_collections(["zz"]) has returned, and the stored collections are there
C17_Witness ==
    /\ lastOp.name = "delete_collections"
    /\ lastOp.ok
    /\ lastOp.args = <<"zz">>
    /\ Cardinality(db.collections) = 2
    /\ \E r \in db.collections : r.collection_album_id = ""

\* C18: delete(K) leaves exactly the media rows whose media_key is not in K, each
\* as it was, whatever their dedup_key and other columns, and leaves the
\* collections and the cursor unchanged; keys of no row are no error
C18_MediaDeletionByKey ==
    [][ Commits({"delete"})
        => /\ db'.remote_media =
                {r \in db.remote_media : r.media_key \notin Range(txn.args)}
           /\ db'.collections = db.collections
           /\ db'.state = db.state ]_vars

\* delete(["zz", "d1"]) has returned: no row has those keys, and the row of
\* dedup_key d1 is still there
C18_Witness ==
    /\ lastOp.name = "delete"
    /\ lastOp.ok
    /\ lastOp.args = <<"zz", "d1">>
    /\ \E r \in db.remote_media : r.dedup_key = "d1"

Bare(data, key) == Get(Item(data, "1"), key, PyNone).k = "dict"

Listed(data, key) ==
    SetPath(data, <<"1", key>>, List(<<Item(Item(data, "1"), key)>>))

\* the same outcome: the same exception, or the same six-tuple
Same(a, b) == a.k = b.k /\ a.v = b.v

\* the lists of the batch that the field fills
ListsOf(key) ==
    CASE key = "2" -> {"remote_media"}
      [] key = "3" -> {"collections"}
      [] key = "9" -> {"media_keys_to_delete", "collection_keys_to_delete"}

\* C20: for each of the fields "2", "3" and "9", parse_db_update returns for an
\* envelope that holds the field as a bare object what it returns for the envelope
\* that holds the one-element list of the object, and a batch of an envelope
\* without the field has empty lists for it
C20_SingletonNormalization ==
    lastOp.name = "parse_db_update"
    => \A key \in {"2", "3", "9"} :
          /\ Bare(lastOp.args, key)
                => Same(lastOp.result, ParseDbUpdate(Listed(lastOp.args, key)))
          /\ (~Has(Item(lastOp.args, "1"), key) /\ lastOp.ok)
                => \A list \in ListsOf(key) : lastOp.result.v[list] = <<>>

\* a page whose media field is a bare object that decodes, and which has no
\* collection field
C20_Witness ==
    /\ lastOp.name = "parse_db_update"
    /\ lastOp.ok
    /\ Bare(lastOp.args, "2")
    /\ Len(lastOp.result.v.remote_media) = 1
    /\ ~Has(Item(lastOp.args, "1"), "3")
    /\ lastOp.result.v.collections = <<>>

\* the media record holds an origin code, and it is not 1, 3 or 4
UnknownOrigin(d) ==
    CHOOSE r \in
        {(code.k = "int" /\ code.v \notin {1, 3, 4}) :
         code \in {Item(Item(Item(d, "2"), "30"), "1")}} : TRUE

\* the envelope without its media records of unknown origin
WithoutUnknown(data) ==
    SetPath(data, <<"1", "2">>,
            List(SelectSeq(Records(data, "2"), LAMBDA d : ~UnknownOrigin(d))))

\* C21: a media record of an origin code other than 1, 3 and 4 does not decode and
\* is in no batch, no returned item has another origin than self, partner or
\* shared, and the page has the outcome it has without that record: the media
\* records that decode are returned, in input order
C21_UnknownOrigin ==
    (/\ lastOp.name = "parse_db_update"
     /\ \E i \in 1..Len(Records(lastOp.args, "2")) :
           UnknownOrigin(Records(lastOp.args, "2")[i]))
    => /\ \A i \in 1..Len(Records(lastOp.args, "2")) :
             UnknownOrigin(Records(lastOp.args, "2")[i])
             => ~Decodes("2", Records(lastOp.args, "2")[i])
       /\ Same(lastOp.result, ParseDbUpdate(WithoutUnknown(lastOp.args)))
       /\ lastOp.ok
             => /\ lastOp.result.v.remote_media =
                      [i \in 1..Len(Decoding(lastOp.args, "2")) |->
                          ParseMediaItem(Decoding(lastOp.args, "2")[i])]
                /\ \A i \in 1..Len(lastOp.result.v.remote_media) :
                      lastOp.result.v.remote_media[i].v.origin.v
                          \in {"self", "partner", "shared"}

\* a page of a photo and a record of origin code 9: the batch holds the photo only
C21_Witness ==
    /\ lastOp.name = "parse_db_update"
    /\ lastOp.ok
    /\ Len(Records(lastOp.args, "2")) = 2
    /\ ~UnknownOrigin(Records(lastOp.args, "2")[1])
    /\ UnknownOrigin(Records(lastOp.args, "2")[2])
    /\ Len(lastOp.result.v.remote_media) = 1

\* C22: get_collections() without a limit returns every stored collection once,
\* and along the list last_activity_time_ms does not increase, the collections
\* without one coming after all those that have one
C22_ListingOrder ==
    (lastOp.name = "get_collections" /\ lastOp.args = None)
    => /\ Len(lastOp.result) = Cardinality(db.collections)
       /\ {CollectionRow(lastOp.result[i]) : i \in 1..Len(lastOp.result)} = db.collections
       /\ \A i, j \in 1..Len(lastOp.result) :
             i < j
             => IF lastOp.result[i].last_activity_time_ms = None
                THEN lastOp.result[j].last_activity_time_ms = None
                ELSE \/ lastOp.result[j].last_activity_time_ms = None
                     \/ lastOp.result[i].last_activity_time_ms[1]
                            >= lastOp.result[j].last_activity_time_ms[1]

\* a listing of three collections: of time 2, of time 1 and without a time
C22_Witness ==
    /\ lastOp.name = "get_collections"
    /\ lastOp.args = None
    /\ Len(lastOp.result) = 3
    /\ lastOp.result[1].last_activity_time_ms = Some(2)
    /\ lastOp.result[2].last_activity_time_ms = Some(1)
    /\ lastOp.result[3].last_activity_time_ms = None

\* the smaller of two numbers
Min(a, b) == IF a < b THEN a ELSE b

\* C23: get_collections(n), n >= 0, on a store of N collections returns min(n, N)
\* collections, the first min(n, N) of a listing without limit
C23_ListingLimit ==
    (lastOp.name = "get_collections" /\ lastOp.args # None)
    => /\ Len(lastOp.result) = Min(lastOp.args[1], Cardinality(db.collections))
       /\ \E s \in Listings(db.collections) :
             \A i \in 1..Len(lastOp.result) :
                i =< Len(s) /\ CollectionRow(lastOp.result[i]) = s[i]

Mutations ==
    {"update", "update_collections", "delete", "delete_collections",
     "update_state_tokens", "set_init_state"}

\* the mutation that returned last was committed: applying it again to the file
\* changes nothing
Committed(op) == Run(op.name, db, op.args) = db

\* C24: the scope "with Storage(path) as s" is left with the connection closed
\* and nothing lost, whether its last call returned or raised: closing changes
\* no table and leaves no transaction of the handle behind, and once the
\* handle is closed the mutation that returned last inside the scope (the last
\* call, or the upsert before a last call that raised) is in the file that
\* every handle reads
C24_ScopedRelease ==
    /\ [](\A h \in Handles :
            conn[h] = "closed"
            => /\ txn.h # h
               /\ (lastOp.h = h /\ lastOp.ok /\ lastOp.name \in Mutations)
                  => Committed(lastOp)
               /\ (prevUpsert.h = h /\ lastOp.h = h /\ ~lastOp.ok)
                  => Committed(prevUpsert))
    /\ [][\A h \in Handles :
            (conn[h] = "open" /\ conn'[h] = "closed")
            => (db' = db /\ txn' = txn /\ lastOp' = lastOp)]_vars

\* handle 2 upserted a collection, its next upsert raised, and the scope was left:
\* the first collection is listed through handle 1
C24_Witness ==
    /\ conn[2] = "closed"
    /\ conn[1] = "open"
    /\ lastOp.h = 2
    /\ lastOp.name = "update_collections"
    /\ ~lastOp.ok
    /\ prevUpsert.h = 2
    /\ CollectionRow(prevUpsert.args[1]) \in db.collections
    /\ CollectionRow(lastOp.args[1]) \notin db.collections

\* the elements of a list
Elements(s) == {s[i] : i \in 1..Len(s)}

\* C25: a media row that exists before a step exists after it (under its
\* media_key) unless the step is the return of delete(K) with its media_key in
\* K, and a collection row exists after it (under its collection_media_key)
\* unless the step is the return of delete_collections(K) with its
\* collection_media_key or its collection_album_id in K
C25_RowsVanishByDeletion ==
    [][/\ \A row \in db.remote_media :
            (\A r \in db'.remote_media : r.media_key # row.media_key)
            => /\ Commits({"delete"})
               /\ lastOp'.name = "delete"
               /\ row.media_key \in Elements(lastOp'.args)
       /\ \A row \in db.collections :
            (\A r \in db'.collections : r.collection_media_key # row.collection_media_key)
            => /\ Commits({"delete_collections"})
               /\ lastOp'.name = "delete_collections"
               /\ \/ row.collection_media_key \in Elements(lastOp'.args)
                  \/ row.collection_album_id \in Elements(lastOp'.args)]_vars

\* delete(["k1"]) has removed the media row while the collection row stays, with
\* handle 2 open as well
C25_Witness ==
    /\ lastOp.name = "delete"
    /\ lastOp.ok
    /\ "k1" \in Elements(lastOp.args)
    /\ db.remote_media = {}
    /\ db.collections # {}
    /\ conn[2] = "open"

\* C26: when the call that holds the transaction raises, after any number of its
\* statements, the file is as it was when the call started (tables and cursor
\* row), nothing of the call is left to execute and its view is gone, so that
\* every handle reads the state before the call; until then the file is that
\* state too
C26_FailedBatchUnchanged ==
    /\ [](txn.h # 0 => db = txn.base)
    /\ [][(/\ txn.h # 0
            /\ txn' = NoTxn
            /\ ~lastOp'.ok)
           => /\ lastOp'.h = txn.h
              /\ lastOp'.name = txn.name
              /\ lastOp'.args = txn.args
              /\ db' = txn.base
              /\ db' = db
              /\ txn' = NoTxn]_vars

\* update of two media records raised; none of the two is in the file, and the
\* other handle is open
C26_Witness ==
    /\ lastOp.name = "update"
    /\ ~lastOp.ok
    /\ Len(lastOp.args) = 2
    /\ lastOp.args[1].media_key # lastOp.args[2].media_key
    /\ db.remote_media = {}
    /\ txn.h = 0
    /\ \A h \in Handles : conn[h] = "open"

\* the record has none of the four type tags with a key at the tag's path: its tag
\* is another one or cannot be read, or nothing can be read at the path
Sentinel(d) ==
    \A i \in 1..4 :
        ~TagAndKey(d, DeletionPaths.type[i], DeletionPaths.outer[i], DeletionPaths.inner[i])

\* the key at the path of the record's type tag
TaggedKey(d) ==
    LET i == CHOOSE j \in 1..4 :
                 TagAndKey(d, DeletionPaths.type[j], DeletionPaths.outer[j],
                           DeletionPaths.inner[j])
    IN KeyAt(d, DeletionPaths.outer[i], DeletionPaths.inner[i])

\* the keys of the records of the types that are not sentinel records: all of
\* them, or those that are not empty
KeysWhere(records, types, nonEmpty) ==
    LET kept == SelectSeq(records,
                          LAMBDA d : /\ ~Sentinel(d)
                                     /\ Tagged(d, types)
                                     /\ nonEmpty => Truthy(TaggedKey(d)))
    IN [i \in 1..Len(kept) |-> TaggedKey(kept[i])]

WithoutDeletions(data) == SetPath(data, <<"1", "9">>, List(<<>>))

\* _parse_deletion_item returns, and returns (0, None) for a sentinel record; the
\* deletion records do not make a page fail
SentinelDecoded ==
    /\ lastOp.name = "_parse_deletion_item"
       => /\ lastOp.ok
          /\ Sentinel(lastOp.args) => lastOp.result = [type |-> 0, key |-> PyNone]
    /\ lastOp.name = "parse_db_update"
       => (lastOp.ok <=> ParseDbUpdate(WithoutDeletions(lastOp.args)).k # "raise")

\* C27 as stated: _parse_deletion_item never raises and returns (0, None) for a
\* record of an unrecognized tag, of a missing key path or that cannot be read; in
\* a page such a record adds no key, and the keys of all other deletion records
\* are returned in input order
C27_DeletionIsolationAsStated ==
    /\ SentinelDecoded
    /\ (lastOp.name = "parse_db_update" /\ lastOp.ok)
       => /\ lastOp.result.v.media_keys_to_delete =
                 KeysWhere(Records(lastOp.args, "9"), {1}, FALSE)
          /\ lastOp.result.v.collection_keys_to_delete =
                 KeysWhere(Records(lastOp.args, "9"), {2, 4, 6}, FALSE)

\* C27: _parse_deletion_item never raises and returns (0, None) for a record of
\* an unrecognized tag, of a missing key path or that cannot be read; in a page
\* such a record adds no key and does not make the page fail, and the keys of all
\* other deletion records that are not empty (nor None) are returned in input
\* order
C27_DeletionIsolation ==
    /\ SentinelDecoded
    /\ (lastOp.name = "parse_db_update" /\ lastOp.ok)
       => /\ lastOp.result.v.media_keys_to_delete =
                 KeysWhere(Records(lastOp.args, "9"), {1}, TRUE)
          /\ lastOp.result.v.collection_keys_to_delete =
                 KeysWhere(Records(lastOp.args, "9"), {2, 4, 6}, TRUE)

\* a page of a deletion record that is not a mapping and a media deletion: the key
\* of the second is returned
C27_Witness ==
    /\ lastOp.name = "parse_db_update"
    /\ lastOp.ok
    /\ Len(Records(lastOp.args, "9")) = 2
    /\ Records(lastOp.args, "9")[1].k = "str"
    /\ Sentinel(Records(lastOp.args, "9")[1])
    /\ lastOp.result.v.media_keys_to_delete = <<Str("k1")>>
    /\ lastOp.result.v.collection_keys_to_delete = <<>>

\* the entries of the property sub-record d["2"]["21"] that hold a text under a
\* key of the prefix "1"
TextualEntries(d) ==
    CHOOSE r \in
        {(IF props.k # "dict" THEN <<>>
          ELSE SelectSeq(props.v, LAMBDA p : StartsWith(p[1], "1") /\ p[2].k = "str")) :
         props \in {Item(Item(d, "2"), "21")}} : TRUE

\* C28: the dedup_key of a decoded media record is the text of its property
\* sub-record under a key of the prefix "1" when there is one, and otherwise (no
\* such key, or no text under it) the URL-safe base64 form of the bytes at
\* ["2"]["13"]["1"]
C28_DedupKeyFallback ==
    (lastOp.name = "parse_db_update" /\ lastOp.ok)
    => \A i \in 1..Len(Decoding(lastOp.args, "2")) :
          LET d == Decoding(lastOp.args, "2")[i]
              item == lastOp.result.v.remote_media[i]
          IN IF TextualEntries(d) = <<>>
             THEN Same(item.v.dedup_key,
                       UrlsafeBase64(B64Encode(Item(Item(Item(d, "2"), "13"), "1"))))
             ELSE Same(item.v.dedup_key, TextualEntries(d)[1][2])

\* C29: the step that opens a handle leaves every table of an initialized store
\* as it is; the cursor row holds the empty defaults after the first
\* initialization and changes only when update_state_tokens or set_init_state
\* returns
C29_OpenPreservesState ==
    /\ db.state = {[id |-> 1, state_token |-> "", page_token |-> "", init_complete |-> 0]}
    /\ [][\A h \in Handles : (conn[h] = "closed" /\ conn'[h] = "open") => db' = db]_vars
    /\ [][db'.state # db.state
          => /\ Commits({"update_state_tokens", "set_init_state"})
             /\ lastOp'.name \in {"update_state_tokens", "set_init_state"}]_vars

\* both handles are open on a store whose cursor and tables were written
C29_Witness ==
    /\ \A h \in Handles : conn[h] = "open"
    /\ txn.h = 0
    /\ db.state = {[id |-> 1, state_token |-> "S1", page_token |-> "S1", init_complete |-> 1]}
    /\ db.remote_media # {}
    /\ db.collections # {}

EmptyAlbumRows ==
    {CollectionRow(item) : item \in {c \in CollectionItems : c.collection_album_id = ""}}

\* the keys of a decoded deletion list as the store takes them
KeyTexts(keys) == [i \in 1..Len(keys) |-> keys[i].v]

\* C31: no deletion list that parse_db_update returns holds None or the empty
\* string, and delete_collections of the returned collection keys removes a
\* collection of the empty default album id only when its collection_media_key
\* is one of the keys
C31_NoEmptyDeletionKeys ==
    (lastOp.name = "parse_db_update" /\ lastOp.ok)
    => /\ \A i \in 1..Len(lastOp.result.v.media_keys_to_delete) :
             LET key == lastOp.result.v.media_keys_to_delete[i]
             IN key.k # "none" /\ ~(key.k = "str" /\ key.v = "")
       /\ \A i \in 1..Len(lastOp.result.v.collection_keys_to_delete) :
             LET key == lastOp.result.v.collection_keys_to_delete[i]
             IN key.k # "none" /\ ~(key.k = "str" /\ key.v = "")
       /\ LET keys == KeyTexts(lastOp.result.v.collection_keys_to_delete)
              left == Run("delete_collections",
                          [db EXCEPT !.collections = EmptyAlbumRows], keys).collections
          IN \A row \in EmptyAlbumRows :
                row.collection_media_key \notin Range(keys) => row \in left

\* a page of a collection deletion of an empty key and the deletion of the
\* collection m1: the one key returned is m1
C31_Witness ==
    /\ lastOp.name = "parse_db_update"
    /\ lastOp.ok
    /\ Len(Records(lastOp.args, "9")) = 2
    /\ Tagged(Records(lastOp.args, "9")[1], {4})
    /\ KeyAt(Records(lastOp.args, "9")[1], "5", "2").k = "str"
    /\ KeyAt(Records(lastOp.args, "9")[1], "5", "2").v = ""
    /\ lastOp.result.v.media_keys_to_delete = <<>>
    /\ lastOp.result.v.collection_keys_to_delete = <<Str("m1")>>
    /\ \E row \in EmptyAlbumRows : row.collection_media_key = "m2"

\* the last record of the batch that has the primary key of x
LastOfKey(name, items, x) ==
    items[CHOOSE i \in 1..Len(items) :
             /\ KeyOf(name, items[i]) = KeyOf(name, x)
             /\ \A j \in (i + 1)..Len(items) : KeyOf(name, items[j]) # KeyOf(name, x)]

\* C32: after update or update_collections has returned for a batch in which
\* several records have the same primary key, the table holds exactly one row
\* for that key, and it is the row of the last of these records
C32_DuplicateKeysInBatch ==
    (lastOp.name \in {"update", "update_collections"} /\ lastOp.ok)
    => \A i, j \in 1..Len(lastOp.args) :
          (i # j /\ KeyOf(lastOp.name, lastOp.args[i]) = KeyOf(lastOp.name, lastOp.args[j]))
          => RowsOf(db, lastOp.name, lastOp.args[i])
                = {RowFor(lastOp.name, LastOfKey(lastOp.name, lastOp.args, lastOp.args[i]))}

\* update_collections of two records of the key m1 returned: the row holds the
\* title and the activity time of the second, None where the first had a time
C32_Witness ==
    /\ lastOp.name = "update_collections"
    /\ lastOp.ok
    /\ Len(lastOp.args) = 2
    /\ lastOp.args[1].collection_media_key = lastOp.args[2].collection_media_key
    /\ lastOp.args[1].last_activity_time_ms # None
    /\ lastOp.args[2].last_activity_time_ms = None
    /\ \E r \in db.collections :
          /\ r.collection_media_key = "m1"
          /\ r.last_activity_time_ms = None
          /\ r.title = lastOp.args[2].title
    /\ Cardinality(db.collections) = 2

Queries ==
    {"get_collections", "get_collection_by_id", "get_collection_by_title",
     "get_state_tokens", "get_init_state"}

\* the columns of the cursor row
Tokens2(d) == <<StateRow(d).state_token, StateRow(d).page_token>>

\* C33: the step in which update or delete returns changes at most the media
\* table; update_collections or delete_collections, at most the collections
\* table; update_state_tokens, at most the two tokens of the cursor row;
\* set_init_state, at most init_complete; a query changes nothing; and the file
\* changes in no other step
C33_OwnTableOnly ==
    [][/\ Commits({"update", "delete"})
            => db'.collections = db.collections /\ db'.state = db.state
       /\ Commits({"update_collections", "delete_collections"})
            => db'.remote_media = db.remote_media /\ db'.state = db.state
       /\ Commits({"update_state_tokens"})
            => /\ db'.remote_media = db.remote_media
               /\ db'.collections = db.collections
               /\ db'.state = {[StateRow(db) EXCEPT !.state_token = StateRow(db').state_token,
                                                    !.page_token = StateRow(db').page_token]}
       /\ Commits({"set_init_state"})
            => /\ db'.remote_media = db.remote_media
               /\ db'.collections = db.collections
               /\ db'.state = {[StateRow(db) EXCEPT
                                   !.init_complete = StateRow(db').init_complete]}
       /\ lastOp'.name \in Queries => db' = db
       /\ db' # db => Commits(Mutations)]_vars

\* set_init_state(1) has returned on a store that holds a state token, a media row
\* and a collection row
C33_Witness ==
    /\ lastOp.name = "set_init_state"
    /\ lastOp.ok
    /\ StateRow(db).init_complete = 1
    /\ Tokens2(db) = <<"S1", "">>
    /\ db.remote_media # {}
    /\ db.collections # {}

====
